---- MODULE Spec2Model ----
(***************************************************************************)
(* Verification model of the log-search console:                           *)
(*   - the SSH connection pool   (app/services/ssh/manager.py)             *)
(*   - the multi-host log search (app/services/log/search.py)              *)
(*   - the terminal sessions     (app/services/terminal/service.py)        *)
(* Each component has its own specification (SpecPool, SpecSearch,         *)
(* SpecHost, SpecTerm); the variables of the other components stay at      *)
(* their initial value.                                                    *)
(***************************************************************************)
EXTENDS Integers, Sequences, FiniteSets, TLC

VARIABLES
    \* ---- connection pool (SSHConnectionManager / SSHConnection) ----
    connections,   \* SSHConnectionManager.connections: key -> instance (NoConn = absent)
    poolLock,      \* SSHConnectionManager.lock: holder
    conns,         \* per SSHConnection object: connected, client, last_used, lock, key, outcome
    nextInst,      \* number of SSHConnection objects constructed so far + 1
    now,           \* time.time()
    pc,            \* per pool caller: position in get_connection / execute_command
    tConn,         \* per pool caller: the local variable conn
    tRaisedOn,     \* per pool caller, until its next acquire: the live connection its command timed out on
    \* ---- one call of LogSearchService.search_multi_host ----
    sPc,           \* position of the call
    sN,            \* len(log_config['sshs'])
    sParams,       \* the SearchParams object
    sTask,         \* per host index: state of its future
    sTaskResult,   \* per host index: what its future holds
    sResults,      \* the local list results
    sOutcome,      \* how the call ended: a raised exception or "returned"
    sHosts,        \* the hosts= argument handed to MultiHostSearchResult
    sTotal,        \* the total_results= argument
    sCache,        \* keys of LogSearchService._reverse_cmd_cache (host indexes)
    sNet,          \* counters: pool acquisitions, reverse probes, commands built, remote executions
    \* ---- one call of LogSearchService._search_single_host ----
    hPc,           \* position of the call
    hEnv,          \* what the remote side does during the call
    hPath,         \* the log path of the host
    hCmd,          \* the command built
    hParsed,       \* the lines _parse_grep_output kept, before the truncation
    hOut,          \* the SearchResult returned
    \* ---- one terminal id of TerminalService ----
    created,       \* create_terminal has registered the session
    sessions,      \* the id is a key of self.sessions and self.session_info
    status,        \* TerminalSession.status of the session object
    chanClosed,    \* channel.closed
    buffer,        \* sd['buffer']: the decoded chunks not drained yet
    received,      \* number of chunks the reader has received
    appended,      \* history: the text of every chunk appended, in order
    delivered,     \* history: the text get_output has returned, in order
    fired,         \* number of invocations of the close listener
    rdPc,          \* position of the _output_reader thread
    clPc,          \* per closer: position in its close
    snPc,          \* position of the sender (send_command, send_raw, resize_terminal, set_locale)
    snKind,        \* the operation the sender is in
    goPc,          \* per get_output caller: position
    rcCache,       \* LogSearchService._reverse_cmd_cache: endpoint -> cached reverse command
    rcPc,          \* per caller of _get_reverse_command: position
    rcKey,         \* per caller: cache_key
    rcCmd,         \* per caller: the local variable cmd
    rcRet,         \* per caller: the value its last call returned
    rcProbes,      \* per endpoint: how many times `which tac` was run on it
    tnow,          \* the wall clock of the terminal service, in seconds
    last_activity, \* TerminalSession.last_activity
    command_count, \* TerminalSession.command_count
    session_history, \* len(TerminalSession.session_history)
    cmdDone,       \* send_command calls that went through to the end
    reported,      \* payload['commands_executed'] of the close that fired the listeners
    sdPc,          \* per concurrent sender: position
    sdKind,        \* per concurrent sender: the method it is in
    sdRead,        \* per concurrent sender: the value `si.command_count += 1` loaded
    sdResult,      \* per concurrent sender: how its last call ended
    rPattern,      \* resolve_filename: filename_pattern, a string as a sequence of symbols
    rDate,         \* resolve_filename: target_date as strftime renders it
    rConn,         \* resolve_filename: ssh_conn (none, or how its execute_command behaves)
    rDirExists,    \* the remote side: `test -d` succeeds
    rMiddles,      \* the remote side: what stands for * in each file the listing prints
    rPc,           \* position in resolve_filename
    rResolved,     \* resolved_pattern
    rFiles,        \* matching_files
    rCmds,         \* remote commands executed on the connection so far
    rOut,          \* what resolve_filename returned or raised
    vPattern,      \* validate_log_filename_pattern: pattern, as a sequence of symbols
    vPc,           \* before or after the call
    vValid,        \* the first component of its result
    vErrors,       \* errors
    dKind,         \* smart_decode: data is empty, starts with a byte-order mark, or neither
    dBomOk,        \* whether data decodes under the encoding its byte-order mark names
    dPreferred,    \* preferred_encoding
    dFallbacks,    \* fallback_encodings
    dTab,          \* what data.decode(encoding) gives, for every encoding
    dPc,           \* position in smart_decode
    dQueue,        \* the encodings still to try in the loop being executed
    dTried,        \* the encodings data.decode was called with, in order
    dBest,         \* best_text, best_encoding, best_confidence
    dOut,          \* what smart_decode returned
    shown,         \* what GET /terminals/<id> answered last
    forced_encoding, \* sd['forced_encoding']
    sdEncoding,    \* sd['encoding']
    last_good,     \* the reader's local last_good
    forced,        \* the reader's local forced, read before the decode call
    enPc,          \* the reader between its chunks, or before the decode call
    chunkLog,      \* what happened to each chunk received, in order
    sentWith,      \* the encoding each send_command / send_raw encoded with, in order
    rdStarted,     \* the number of _output_reader threads started for the session
    sOverdue,      \* the hosts whose task has been running for longer than SEARCH_EXEC_TIMEOUT
    lkOp,          \* the operation each thread executes
    lkPos,         \* the number of lock instructions of its operation it has executed
    lkHeld         \* for each lock the thread that holds it, or NoThread

probeVars == <<rcCache, rcPc, rcKey, rcCmd, rcRet, rcProbes>>

lifeVars == <<tnow, last_activity, command_count, session_history, cmdDone, reported,
             sdPc, sdKind, sdRead, sdResult>>

validateVars == <<vPattern, vPc, vValid, vErrors>>

decodeVars == <<dKind, dBomOk, dPreferred, dFallbacks, dTab, dPc, dQueue, dTried, dBest, dOut>>

historyVars == <<shown>>

encodingVars == <<forced_encoding, sdEncoding, last_good, forced, enPc, chunkLog, sentWith>>

readerVars == <<rdStarted>>

batchVars == <<sOverdue>>

\* the state next to the groups above
lockVars == <<lkOp, lkPos, lkHeld>>

engineVars == <<historyVars, encodingVars, readerVars, batchVars, lockVars>>

resolveVars == <<rPattern, rDate, rConn, rDirExists, rMiddles, rPc, rResolved, rFiles, rCmds, rOut>>

poolVars == <<connections, poolLock, conns, nextInst, now, pc, tConn, tRaisedOn>>

searchVars == <<sPc, sN, sParams, sTask, sTaskResult, sResults, sOutcome, sHosts, sTotal, sCache, sNet>>

hostVars == <<hPc, hEnv, hPath, hCmd, hParsed, hOut>>

termVars ==
    <<created, sessions, status, chanClosed, buffer, received, appended, delivered, fired,
      rdPc, clPc, snPc, snKind, goPc>>

(***************************************************************************)
(* Bounds                                                                  *)
(***************************************************************************)
NThreads == 2
NKeys == 2
MaxInst == 2
MaxTicks == 1
MaxHosts == 3
MaxOut == 3
MaxCap == 2
NClosers == 3
NGetters == 1
MaxChunks == 2
NCallers == 2
NEndpoints == 2
NSenders == 2
MaxCmds == 2
MaxClock == 3
MaxFiles == 2
MaxPatLen == 6
MaxHistory == 12
NLockThreads == 2
MaxBad == 2
TextLen == 10

Threads == 1..NThreads
Keys == 1..NKeys
Inst == 1..MaxInst
NoThread == 0
NoConn == 0
NoKey == 0

(***************************************************************************)
(* SSHConnection                                                           *)
(***************************************************************************)
\* SSHConnectionManager(max_connections=...): the capacity ceiling of the pool
max_connections == 1

\* _cleanup_old_connections: now - c.last_used > 300
StaleWindow == 300

\* the clock is observed in steps of just over one staleness window
TickStep == StaleWindow + 1

\* SSHConnection.__init__; outcome records what connect() returned for the object
NewConnection(k) ==
    [connected |-> FALSE, client |-> "none", last_used |-> now, lock |-> NoThread,
     key |-> k, outcome |-> "pending"]

\* an SSHConnection object that has not been constructed yet
Unbuilt ==
    [connected |-> FALSE, client |-> "none", last_used |-> 0, lock |-> NoThread,
     key |-> NoKey, outcome |-> "pending"]

\* SSHConnection.is_alive
is_alive(c) == conns[c].connected /\ conns[c].client = "active"

\* a close that leaves the client in place
Closed_KeepClient(r) == [r EXCEPT !.connected = FALSE]

\* SSHConnection.close: client = None, connected = False
Closed(r) == [r EXCEPT !.client = "none", !.connected = FALSE]

\* SSHConnection.connect, success branch
Connected(r) ==
    [r EXCEPT !.client = "active", !.connected = TRUE, !.last_used = now, !.outcome = "ok"]

\* SSHConnection.connect, except branch
ConnectFailed(r) == [r EXCEPT !.client = "none", !.connected = FALSE, !.outcome = "failed"]

\* get_connection entered without taking SSHConnectionManager.lock
PoolLockAvailable_NoLock == TRUE

\* `with self.lock:` in get_connection / the cleanup loop: the lock can be taken
PoolLockAvailable == poolLock = NoThread

\* execute_command run without taking SSHConnection.lock
ConnLockAvailable_NoLock(c) == TRUE

\* `with self.lock:` in execute_command: the connection's lock can be taken
ConnLockAvailable(c) == conns[c].lock = NoThread

\* a sweep that takes every pooled key for stale
StaleKeys_All == {k \in Keys : connections[k] # NoConn}

\* the stale keys of _cleanup_old_connections
StaleKeys ==
    {k \in Keys : connections[k] # NoConn /\ now - conns[connections[k]].last_used > StaleWindow}

\* _cleanup_old_connections: pop every stale entry ...
CleanupConnections(cs) == [k \in Keys |-> IF k \in StaleKeys THEN NoConn ELSE cs[k]]

\* ... and close it
CleanupConns(cn) ==
    [c \in Inst |-> IF \E k \in StaleKeys : connections[k] = c THEN Closed(cn[c]) ELSE cn[c]]

\* len(self.connections)
PoolSize(cs) == Cardinality({k \in Keys : cs[k] # NoConn})

(***************************************************************************)
(* SSHConnectionManager.get_connection                                     *)
(***************************************************************************)
\* with self.lock: the entry of the key is alive -> return it
GcReuse(t, k) ==
    /\ pc[t] = "idle"
    /\ PoolLockAvailable
    /\ connections[k] # NoConn
    /\ is_alive(connections[k])
    /\ tConn' = [tConn EXCEPT ![t] = connections[k]]
    /\ pc' = [pc EXCEPT ![t] = "have"]
    /\ UNCHANGED <<connections, poolLock, conns, nextInst, now>>
    /\ UNCHANGED <<searchVars, hostVars, termVars, probeVars, lifeVars, resolveVars, validateVars, decodeVars, engineVars>>
    /\ tRaisedOn' = [tRaisedOn EXCEPT ![t] = NoConn]

\* with self.lock: no live entry: a dead entry is closed and deleted; at capacity the
\* stale entries are cleaned up; conn = SSHConnection(cfg); connect() is then under way
\* with the lock held.  Endpoints are numbered in the order of their first connection.
GcCreate(t, k) ==
    /\ pc[t] = "idle"
    /\ PoolLockAvailable
    /\ nextInst <= MaxInst
    /\ \A j \in Keys : j < k => \E c \in Inst : conns[c].key = j
    /\ ~(connections[k] # NoConn /\ is_alive(connections[k]))
    /\ LET c == connections[k]
           cs1 == IF c # NoConn THEN [connections EXCEPT ![k] = NoConn] ELSE connections
           cn1 == IF c # NoConn THEN [conns EXCEPT ![c] = Closed(@)] ELSE conns
           atCap == PoolSize(cs1) >= max_connections
           cs2 == IF atCap THEN CleanupConnections(cs1) ELSE cs1
           cn2 == IF atCap THEN CleanupConns(cn1) ELSE cn1
       IN /\ connections' = cs2
          /\ conns' = [cn2 EXCEPT ![nextInst] = NewConnection(k)]
    /\ poolLock' = t
    /\ tConn' = [tConn EXCEPT ![t] = nextInst]
    /\ nextInst' = nextInst + 1
    /\ pc' = [pc EXCEPT ![t] = "gc_connect"]
    /\ UNCHANGED now
    /\ UNCHANGED <<searchVars, hostVars, termVars, probeVars, lifeVars, resolveVars, validateVars, decodeVars, engineVars>>
    /\ tRaisedOn' = [tRaisedOn EXCEPT ![t] = NoConn]

\* if conn.connect(): self.connections[key] = conn; return conn
GcConnectOk(t) ==
    /\ pc[t] = "gc_connect"
    /\ LET c == tConn[t]
       IN /\ conns' = [conns EXCEPT ![c] = Connected(@)]
          /\ connections' = [connections EXCEPT ![conns[c].key] = c]
    /\ pc' = [pc EXCEPT ![t] = "have"]
    /\ poolLock' = IF poolLock = t THEN NoThread ELSE poolLock
    /\ UNCHANGED <<nextInst, now, tConn>>
    /\ UNCHANGED <<searchVars, hostVars, termVars, probeVars, lifeVars, resolveVars, validateVars, decodeVars, engineVars>>
    /\ UNCHANGED tRaisedOn

\* the connection stored in the pool although connect() returned False
GcConnectFail_Stored(t) ==
    /\ pc[t] = "gc_connect"
    /\ conns' = [conns EXCEPT ![tConn[t]] = ConnectFailed(@)]
    /\ connections' = [connections EXCEPT ![conns[tConn[t]].key] = tConn[t]]
    /\ tConn' = [tConn EXCEPT ![t] = NoConn]
    /\ pc' = [pc EXCEPT ![t] = "idle"]
    /\ poolLock' = IF poolLock = t THEN NoThread ELSE poolLock
    /\ UNCHANGED <<nextInst, now>>
    /\ UNCHANGED <<searchVars, hostVars, termVars, probeVars, lifeVars, resolveVars, validateVars, decodeVars, engineVars>>
    /\ UNCHANGED tRaisedOn

\* connect() returned False: return None, nothing is stored
GcConnectFail(t) ==
    /\ pc[t] = "gc_connect"
    /\ conns' = [conns EXCEPT ![tConn[t]] = ConnectFailed(@)]
    /\ tConn' = [tConn EXCEPT ![t] = NoConn]
    /\ pc' = [pc EXCEPT ![t] = "idle"]
    /\ poolLock' = IF poolLock = t THEN NoThread ELSE poolLock
    /\ UNCHANGED <<connections, nextInst, now>>
    /\ UNCHANGED <<searchVars, hostVars, termVars, probeVars, lifeVars, resolveVars, validateVars, decodeVars, engineVars>>
    /\ UNCHANGED tRaisedOn

(***************************************************************************)
(* SSHConnection.execute_command                                           *)
(***************************************************************************)
\* if not self.connected or not self.client: raise RuntimeError
ExecCheck(t) ==
    /\ pc[t] = "have"
    /\ LET c == tConn[t]
       IN IF conns[c].connected /\ conns[c].client # "none"
          THEN /\ pc' = [pc EXCEPT ![t] = "ex_wait"]
               /\ UNCHANGED tConn
          ELSE /\ pc' = [pc EXCEPT ![t] = "idle"]
               /\ tConn' = [tConn EXCEPT ![t] = NoConn]
    /\ UNCHANGED <<connections, poolLock, conns, nextInst, now>>
    /\ UNCHANGED <<searchVars, hostVars, termVars, probeVars, lifeVars, resolveVars, validateVars, decodeVars, engineVars>>
    /\ UNCHANGED tRaisedOn

\* with self.lock: ... self.client.exec_command(command, timeout=...)
ExecLock(t) ==
    /\ pc[t] = "ex_wait"
    /\ ConnLockAvailable(tConn[t])
    /\ conns' = [conns EXCEPT ![tConn[t]].lock = t]
    /\ pc' = [pc EXCEPT ![t] = "ex_run"]
    /\ UNCHANGED <<connections, poolLock, nextInst, now, tConn>>
    /\ UNCHANGED <<searchVars, hostVars, termVars, probeVars, lifeVars, resolveVars, validateVars, decodeVars, engineVars>>
    /\ UNCHANGED tRaisedOn

\* the command returns (out, err, exit_code): last_used is refreshed, the lock released
ExecReturn(t) ==
    /\ pc[t] = "ex_run"
    /\ LET c == tConn[t]
       IN /\ conns[c].client = "active"
          /\ conns' = [conns EXCEPT ![c].lock = IF @ = t THEN NoThread ELSE @,
                                    ![c].last_used = now]
    /\ pc' = [pc EXCEPT ![t] = "idle"]
    /\ tConn' = [tConn EXCEPT ![t] = NoConn]
    /\ UNCHANGED <<connections, poolLock, nextInst, now>>
    /\ UNCHANGED <<searchVars, hostVars, termVars, probeVars, lifeVars, resolveVars, validateVars, decodeVars, engineVars>>
    /\ UNCHANGED tRaisedOn

\* a raise that also marks the connection as not connected
ExecRaise_Invalidate(t) ==
    /\ pc[t] = "ex_run"
    /\ conns' = [conns EXCEPT ![tConn[t]].lock = IF @ = t THEN NoThread ELSE @,
                              ![tConn[t]].connected = FALSE]
    /\ pc' = [pc EXCEPT ![t] = "idle"]
    /\ tConn' = [tConn EXCEPT ![t] = NoConn]
    /\ UNCHANGED <<connections, poolLock, nextInst, now>>
    /\ UNCHANGED <<searchVars, hostVars, termVars, probeVars, lifeVars, resolveVars, validateVars, decodeVars, engineVars>>
    /\ tRaisedOn' = [tRaisedOn EXCEPT ![t] = IF is_alive(tConn[t]) THEN tConn[t] ELSE NoConn]

\* exec_command / read raises (timeout, dead or closed client): the lock is released,
\* last_used and connected are left as they are; a raise on a live connection is the
\* timeout (socket.timeout from exec_command or read)
ExecRaise(t) ==
    /\ pc[t] = "ex_run"
    /\ conns' = [conns EXCEPT ![tConn[t]].lock = IF @ = t THEN NoThread ELSE @]
    /\ pc' = [pc EXCEPT ![t] = "idle"]
    /\ tConn' = [tConn EXCEPT ![t] = NoConn]
    /\ UNCHANGED <<connections, poolLock, nextInst, now>>
    /\ UNCHANGED <<searchVars, hostVars, termVars, probeVars, lifeVars, resolveVars, validateVars, decodeVars, engineVars>>
    /\ tRaisedOn' = [tRaisedOn EXCEPT ![t] = IF is_alive(tConn[t]) THEN tConn[t] ELSE NoConn]

(***************************************************************************)
(* Environment of the pool                                                 *)
(***************************************************************************)
\* the remote end or the network drops the transport: transport.is_active() = False
TransportDies(c) ==
    /\ conns[c].client = "active"
    /\ conns' = [conns EXCEPT ![c].client = "dead"]
    /\ UNCHANGED <<connections, poolLock, nextInst, now, pc, tConn>>
    /\ UNCHANGED <<searchVars, hostVars, termVars, probeVars, lifeVars, resolveVars, validateVars, decodeVars, engineVars>>
    /\ UNCHANGED tRaisedOn

\* the clock advances; an advance is observed only while some pooled connection is
\* not stale yet (otherwise it changes nothing any code path reads)
Tick ==
    /\ now + TickStep <= MaxTicks * TickStep
    /\ \E k \in Keys : connections[k] # NoConn /\ k \notin StaleKeys
    /\ now' = now + TickStep
    /\ UNCHANGED <<connections, poolLock, conns, nextInst, pc, tConn>>
    /\ UNCHANGED <<searchVars, hostVars, termVars, probeVars, lifeVars, resolveVars, validateVars, decodeVars, engineVars>>
    /\ UNCHANGED tRaisedOn

\* _start_cleanup_thread.loop: with self.lock: self._cleanup_old_connections()
Sweep ==
    /\ PoolLockAvailable
    /\ StaleKeys # {}
    /\ connections' = CleanupConnections(connections)
    /\ conns' = CleanupConns(conns)
    /\ UNCHANGED <<poolLock, nextInst, now, pc, tConn>>
    /\ UNCHANGED <<searchVars, hostVars, termVars, probeVars, lifeVars, resolveVars, validateVars, decodeVars, engineVars>>
    /\ UNCHANGED tRaisedOn

InitPoolVars ==
    /\ connections = [k \in Keys |-> NoConn]
    /\ poolLock = NoThread
    /\ conns = [c \in Inst |-> Unbuilt]
    /\ nextInst = 1
    /\ now = 0
    /\ pc = [t \in Threads |-> "idle"]
    /\ tConn = [t \in Threads |-> NoConn]
    /\ tRaisedOn = [t \in Threads |-> NoConn]

NextPool ==
    \/ \E t \in Threads, k \in Keys : GcReuse(t, k)
    \/ \E t \in Threads, k \in Keys : GcCreate(t, k)
    \/ \E t \in Threads : GcConnectOk(t)
    \/ \E t \in Threads : GcConnectFail(t)
    \/ \E t \in Threads : ExecCheck(t)
    \/ \E t \in Threads : ExecLock(t)
    \/ \E t \in Threads : ExecReturn(t)
    \/ \E t \in Threads : ExecRaise(t)
    \/ \E c \in Inst : TransportDies(c)
    \/ Tick
    \/ Sweep

(***************************************************************************)
(* TerminalService (app/services/terminal/service.py), one terminal id     *)
(***************************************************************************)
Closers == 1..NClosers

Getters == 1..NGetters

\* who calls close_terminal: the idle reaper, the delayed check of a socket disconnect,
\* callers of the close API
CloserKind(c) == IF c = 1 THEN "reaper" ELSE IF c = 2 THEN "disconnect" ELSE "api"

SenderKinds == {"send_command", "send_raw", "resize_terminal", "set_locale"}

\* "\n[会话已结束]\n", and the text the decoder flushes at the end
EndMarker == <<"[end]">>

FinalTails == {<<>>, <<"tail">>}

\* ''.join(chunks)
RECURSIVE Join(_)
Join(chunks) == IF chunks = <<>> THEN <<>> ELSE Head(chunks) \o Join(Tail(chunks))

\* the entry read but left in the registry
AfterPop_Keep(reg) == reg

\* self.sessions.pop(terminal_id, None); self.session_info.pop(terminal_id, None)
AfterPop(reg) == FALSE

\* the buffer returned but not cleared
AfterDrain_Keep(buf) == buf

\* sd['buffer'].clear()
AfterDrain(buf) == <<>>

InitTermVars ==
    /\ created = FALSE
    /\ sessions = FALSE
    /\ status = "none"
    /\ chanClosed = FALSE
    /\ buffer = <<>>
    /\ received = 0
    /\ appended = <<>>
    /\ delivered = <<>>
    /\ fired = 0
    /\ rdPc = "off"
    /\ clPc = [c \in Closers |-> "idle"]
    /\ snPc = "idle"
    /\ snKind = "none"
    /\ goPc = [g \in Getters |-> "idle"]

\* create_terminal: TerminalSession(status="connected", last_activity=now), the registration under
\* self._lock, the reader thread started
TermCreate ==
    /\ ~created
    /\ created' = TRUE
    /\ sessions' = TRUE
    /\ status' = "connected"
    /\ rdPc' = "start"
    /\ rdStarted' = rdStarted + 1
    /\ last_activity' = tnow
    /\ UNCHANGED <<chanClosed, buffer, received, appended, delivered, fired, clPc, snPc, snKind, goPc>>
    /\ UNCHANGED <<tnow, command_count, session_history, cmdDone, reported, sdPc, sdKind, sdRead, sdResult>>
    /\ UNCHANGED <<poolVars, searchVars, hostVars, probeVars, resolveVars, validateVars, decodeVars,
                   historyVars, encodingVars, batchVars, lockVars>>

\* the remote shell ends or the network drops: the channel is closed
RemoteCloses ==
    /\ created
    /\ ~chanClosed
    /\ chanClosed' = TRUE
    /\ UNCHANGED <<created, sessions, status, buffer, received, appended, delivered, fired,
                   rdPc, clPc, snPc, snKind, goPc>>
    /\ UNCHANGED <<poolVars, searchVars, hostVars, probeVars, lifeVars, resolveVars, validateVars, decodeVars, engineVars>>

\* _output_reader: sd = self.sessions.get(terminal_id); if not sd: return
ReaderStart ==
    /\ rdPc = "start"
    /\ rdPc' = IF sessions THEN "loop" ELSE "done"
    /\ UNCHANGED <<created, sessions, status, chanClosed, buffer, received, appended, delivered,
                   fired, clPc, snPc, snKind, goPc>>
    /\ UNCHANGED <<poolVars, searchVars, hostVars, probeVars, lifeVars, resolveVars, validateVars, decodeVars, engineVars>>

\* data = channel.recv(8192); text = decode; with sd['lock']: sd['buffer'].append(text)
ReaderAppend(text) ==
    /\ rdPc = "loop"
    /\ ~chanClosed
    /\ received < MaxChunks
    /\ received' = received + 1
    /\ buffer' = Append(buffer, text)
    /\ appended' = appended \o text
    /\ UNCHANGED <<created, sessions, status, chanClosed, delivered, fired, rdPc, clPc, snPc,
                   snKind, goPc>>
    /\ UNCHANGED <<poolVars, searchVars, hostVars, probeVars, lifeVars, resolveVars, validateVars, decodeVars, engineVars>>

\* a reader that never looks at channel.closed
ReaderBreak_Never ==
    /\ rdPc = "loop"
    /\ chanClosed
    /\ rdPc' = "loop"
    /\ UNCHANGED <<created, sessions, status, chanClosed, buffer, received, appended, delivered,
                   fired, clPc, snPc, snKind, goPc>>
    /\ UNCHANGED <<poolVars, searchVars, hostVars, probeVars, lifeVars, resolveVars, validateVars, decodeVars, engineVars>>

\* if channel.closed: break (or recv returned no data)
ReaderBreak ==
    /\ rdPc = "loop"
    /\ chanClosed
    /\ rdPc' = "final"
    /\ UNCHANGED <<created, sessions, status, chanClosed, buffer, received, appended, delivered,
                   fired, clPc, snPc, snKind, goPc>>
    /\ UNCHANGED <<poolVars, searchVars, hostVars, probeVars, lifeVars, resolveVars, validateVars, decodeVars, engineVars>>

\* an end of the reader that appends the decoder's tail but no end marker
ReaderFinal_NoMarker(tail) ==
    /\ rdPc = "final"
    /\ buffer' = (IF tail # <<>> THEN Append(buffer, tail) ELSE buffer)
    /\ appended' = appended \o tail
    /\ rdPc' = "status"
    /\ UNCHANGED <<created, sessions, status, chanClosed, received, delivered, fired, clPc, snPc,
                   snKind, goPc>>
    /\ UNCHANGED <<poolVars, searchVars, hostVars, probeVars, lifeVars, resolveVars, validateVars, decodeVars, engineVars>>

\* with sd['lock']: the decoder's tail, if any, and the end marker are appended
ReaderFinal(tail) ==
    /\ rdPc = "final"
    /\ buffer' = (IF tail # <<>> THEN Append(buffer, tail) ELSE buffer) \o <<EndMarker>>
    /\ appended' = appended \o tail \o EndMarker
    /\ rdPc' = "status"
    /\ UNCHANGED <<created, sessions, status, chanClosed, received, delivered, fired, clPc, snPc,
                   snKind, goPc>>
    /\ UNCHANGED <<poolVars, searchVars, hostVars, probeVars, lifeVars, resolveVars, validateVars, decodeVars, engineVars>>

\* an end of the reader that takes the session out of the registries
ReaderStatus_Pops ==
    /\ rdPc = "status"
    /\ status' = IF sessions THEN "disconnected" ELSE status
    /\ sessions' = AfterPop(sessions)
    /\ rdPc' = "done"
    /\ UNCHANGED <<created, chanClosed, buffer, received, appended, delivered, fired,
                   clPc, snPc, snKind, goPc>>
    /\ UNCHANGED <<poolVars, searchVars, hostVars, probeVars, lifeVars, resolveVars, validateVars, decodeVars, engineVars>>

\* with self._lock: si = self.session_info.get(terminal_id); if si: si.status = 'disconnected'
ReaderStatus ==
    /\ rdPc = "status"
    /\ status' = IF sessions THEN "disconnected" ELSE status
    /\ rdPc' = "done"
    /\ UNCHANGED <<created, sessions, chanClosed, buffer, received, appended, delivered, fired,
                   clPc, snPc, snKind, goPc>>
    /\ UNCHANGED <<poolVars, searchVars, hostVars, probeVars, lifeVars, resolveVars, validateVars, decodeVars, engineVars>>

\* _idle_reaper: with self._lock the session is found idle past the cutoff: a victim
ReaperSelect(c) ==
    /\ CloserKind(c) = "reaper"
    /\ clPc[c] = "idle"
    /\ sessions
    /\ clPc' = [clPc EXCEPT ![c] = "selected"]
    /\ UNCHANGED <<created, sessions, status, chanClosed, buffer, received, appended, delivered,
                   fired, rdPc, snPc, snKind, goPc>>
    /\ UNCHANGED <<poolVars, searchVars, hostVars, probeVars, lifeVars, resolveVars, validateVars, decodeVars, engineVars>>

\* _delayed_check after the sleep: if tid in terminal_service_singleton.sessions
DisconnectCheck(c) ==
    /\ CloserKind(c) = "disconnect"
    /\ clPc[c] = "idle"
    /\ created
    /\ clPc' = [clPc EXCEPT ![c] = IF sessions THEN "selected" ELSE "skipped"]
    /\ UNCHANGED <<created, sessions, status, chanClosed, buffer, received, appended, delivered,
                   fired, rdPc, snPc, snKind, goPc>>
    /\ UNCHANGED <<poolVars, searchVars, hostVars, probeVars, lifeVars, resolveVars, validateVars, decodeVars, engineVars>>

\* close_terminal: with self._lock: sd = sessions.pop(..); si = session_info.pop(..);
\* if not sd or not si: raise ValueError.  The calls of the close API are numbered in
\* the order they take the lock.
ClosePop(c) ==
    /\ created
    /\ \/ /\ CloserKind(c) = "api"
          /\ clPc[c] = "idle"
          /\ \A d \in Closers : (CloserKind(d) = "api" /\ d < c) => clPc[d] # "idle"
       \/ clPc[c] = "selected"
    /\ IF sessions
       THEN /\ sessions' = AfterPop(sessions)
            /\ clPc' = [clPc EXCEPT ![c] = "won"]
       ELSE /\ clPc' = [clPc EXCEPT ![c] = "notfound"]
            /\ UNCHANGED sessions
    /\ UNCHANGED <<created, status, chanClosed, buffer, received, appended, delivered, fired,
                   rdPc, snPc, snKind, goPc>>
    /\ UNCHANGED <<poolVars, searchVars, hostVars, probeVars, lifeVars, resolveVars, validateVars, decodeVars, engineVars>>

\* sd['channel'].close(); sd['ssh_client'].close()
CloseChannel(c) ==
    /\ clPc[c] = "won"
    /\ chanClosed' = TRUE
    /\ clPc' = [clPc EXCEPT ![c] = "fire"]
    /\ UNCHANGED <<created, sessions, status, buffer, received, appended, delivered, fired,
                   rdPc, snPc, snKind, goPc>>
    /\ UNCHANGED <<poolVars, searchVars, hostVars, probeVars, lifeVars, resolveVars, validateVars, decodeVars, engineVars>>

\* payload = {..., 'commands_executed': si.command_count};
\* for cb in list(self._close_listeners): cb(payload)
CloseFire(c) ==
    /\ clPc[c] = "fire"
    /\ fired' = fired + 1
    /\ reported' = command_count
    /\ clPc' = [clPc EXCEPT ![c] = "done"]
    /\ UNCHANGED <<created, sessions, status, chanClosed, buffer, received, appended, delivered,
                   rdPc, snPc, snKind, goPc>>
    /\ UNCHANGED <<tnow, last_activity, command_count, session_history, cmdDone, sdPc, sdKind, sdRead, sdResult>>
    /\ UNCHANGED <<poolVars, searchVars, hostVars, probeVars, resolveVars, validateVars, decodeVars, engineVars>>

\* send_command / send_raw / resize_terminal / set_locale: with self._lock the session
\* is looked up (ValueError when it is absent)
SendLookup(kind) ==
    /\ snPc = "idle"
    /\ sessions
    /\ snPc' = "sending"
    /\ snKind' = kind
    /\ UNCHANGED <<created, sessions, status, chanClosed, buffer, received, appended, delivered,
                   fired, rdPc, clPc, goPc>>
    /\ UNCHANGED <<poolVars, searchVars, hostVars, probeVars, lifeVars, resolveVars, validateVars, decodeVars, engineVars>>

\* channel.send / resize_pty returns
SendOk ==
    /\ snPc = "sending"
    /\ ~chanClosed
    /\ snPc' = "idle"
    /\ snKind' = "none"
    /\ UNCHANGED <<created, sessions, status, chanClosed, buffer, received, appended, delivered,
                   fired, rdPc, clPc, goPc>>
    /\ UNCHANGED <<poolVars, searchVars, hostVars, probeVars, lifeVars, resolveVars, validateVars, decodeVars, engineVars>>

\* channel.send / resize_pty raises: send_command and send_raw set si.status = 'error'
SendFail ==
    /\ snPc = "sending"
    /\ status' = IF snKind \in {"send_command", "send_raw"} THEN "error" ELSE status
    /\ snPc' = "idle"
    /\ snKind' = "none"
    /\ UNCHANGED <<created, sessions, chanClosed, buffer, received, appended, delivered, fired,
                   rdPc, clPc, goPc>>
    /\ UNCHANGED <<poolVars, searchVars, hostVars, probeVars, lifeVars, resolveVars, validateVars, decodeVars, engineVars>>

\* get_output: sd = self.sessions.get(terminal_id) (ValueError when it is absent)
GetLookup(g) ==
    /\ goPc[g] = "idle"
    /\ sessions
    /\ goPc' = [goPc EXCEPT ![g] = "have"]
    /\ UNCHANGED <<created, sessions, status, chanClosed, buffer, received, appended, delivered,
                   fired, rdPc, clPc, snPc, snKind>>
    /\ UNCHANGED <<poolVars, searchVars, hostVars, probeVars, lifeVars, resolveVars, validateVars, decodeVars, engineVars>>

\* with sd['lock']: '' for an empty buffer, else out = ''.join(buffer); buffer.clear()
GetDrain(g) ==
    /\ goPc[g] = "have"
    /\ IF buffer = <<>>
       THEN UNCHANGED <<buffer, delivered>>
       ELSE /\ delivered' = delivered \o Join(buffer)
            /\ buffer' = AfterDrain(buffer)
    /\ goPc' = [goPc EXCEPT ![g] = "idle"]
    /\ UNCHANGED <<created, sessions, status, chanClosed, received, appended, fired, rdPc, clPc,
                   snPc, snKind>>
    /\ UNCHANGED <<poolVars, searchVars, hostVars, probeVars, lifeVars, resolveVars, validateVars, decodeVars, engineVars>>

NextTerm ==
    \/ TermCreate
    \/ RemoteCloses
    \/ ReaderStart
    \/ \E text \in {<<>>, <<ToString(received + 1)>>} : ReaderAppend(text)
    \/ ReaderBreak
    \/ \E tail \in FinalTails : ReaderFinal(tail)
    \/ ReaderStatus
    \/ \E c \in Closers : ReaperSelect(c)
    \/ \E c \in Closers : DisconnectCheck(c)
    \/ \E c \in Closers : ClosePop(c)
    \/ \E c \in Closers : CloseChannel(c)
    \/ \E c \in Closers : CloseFire(c)
    \/ \E kind \in SenderKinds : SendLookup(kind)
    \/ SendOk
    \/ SendFail
    \/ \E g \in Getters : GetLookup(g)
    \/ \E g \in Getters : GetDrain(g)

(***************************************************************************)
(* SearchParams (app/models/__init__.py)                                   *)
(***************************************************************************)
\* the fields the SearchParams dataclass declares
SearchParamsFields ==
    {"keyword", "search_mode", "context_span", "use_regex", "reverse_order",
     "use_file_filter", "selected_file", "selected_files"}

\* what `search_params.max_lines` evaluates to: the dataclass declares no such field, so
\* the attribute exists only when a caller has set it on the object ("None" or "int");
\* otherwise reading it raises AttributeError ("absent")
MaxLinesStates == IF "max_lines" \in SearchParamsFields THEN {"None", "int"} ELSE {"absent", "None", "int"}

\* SearchParams.validate without the context_span check
ValidationErrors_NoSpanCheck(p) ==
    IF p.search_mode \notin {"keyword", "context", "tail"} THEN {"search_mode"} ELSE {}

\* SearchParams.validate: the errors it collects; it raises ValueError when there are any
ValidationErrors(p) ==
    (IF p.context_span < 0 \/ p.context_span > 50 THEN {"context_span"} ELSE {})
    \cup (IF p.search_mode \notin {"keyword", "context", "tail"} THEN {"search_mode"} ELSE {})

MkParams(kw, mode, span, rx, rev, mlState, ml) ==
    [keyword |-> kw, search_mode |-> mode, context_span |-> span, use_regex |-> rx,
     reverse_order |-> rev, max_lines_state |-> mlState, max_lines |-> ml]

(***************************************************************************)
(* LogSearchService: building the command                                  *)
(***************************************************************************)
SINGLE_HOST_TAIL_RECENT == 100
MAX_GREP_LINES_LIMIT == 10000

Max(a, b) == IF a >= b THEN a ELSE b

\* the log paths of the hosts
Paths == {"/var/log/app.log", "/var/log/app.log.gz", "/var/log/grep -n/app.log"}

\* file_path.endswith('.gz')
EndsWithGz(path) == path = "/var/log/app.log.gz"

\* 'grep -n' in <text>
ContainsGrepN(text) == text = "/var/log/grep -n/app.log"

\* a tail that still names the file behind the decompress stage
TailBuilder_FileAfterPipe(path, n) ==
    IF EndsWithGz(path)
    THEN <<[stage |-> "gzip -dc", arg |-> 0, file |-> path],
           [stage |-> "tail -n", arg |-> n, file |-> path]>>
    ELSE <<[stage |-> "tail -n", arg |-> n, file |-> path]>>

\* _tail_builder
TailBuilder(path, n) ==
    IF EndsWithGz(path)
    THEN <<[stage |-> "gzip -dc", arg |-> 0, file |-> path],
           [stage |-> "tail -n", arg |-> n, file |-> ""]>>
    ELSE <<[stage |-> "tail -n", arg |-> n, file |-> path]>>

ReverseStage(rev) == <<[stage |-> rev, arg |-> 0, file |-> ""]>>

\* a composition without the branch for an empty keyword
ComposeCommand_NoEmptyKeywordBranch(p, path, rev) ==
    IF p.search_mode = "tail"
    THEN TailBuilder(path, Max(SINGLE_HOST_TAIL_RECENT, p.context_span))
         \o (IF p.reverse_order THEN ReverseStage(rev) ELSE <<>>)
    ELSE LET grep == IF p.use_regex THEN "grep -nE" ELSE "grep -nF"
             span == IF p.search_mode = "context" /\ p.context_span > 0 THEN p.context_span ELSE 0
             match == IF EndsWithGz(path)
                      THEN <<[stage |-> "gzip -dc", arg |-> 0, file |-> path],
                             [stage |-> grep, arg |-> span, file |-> ""]>>
                      ELSE <<[stage |-> grep, arg |-> span, file |-> path]>>
         IN match \o (IF p.reverse_order
                      THEN <<[stage |-> "tail -n", arg |-> MAX_GREP_LINES_LIMIT, file |-> ""]>>
                           \o ReverseStage(rev)
                      ELSE <<[stage |-> "head -n", arg |-> MAX_GREP_LINES_LIMIT, file |-> ""]>>)

\* _compose_command: the pipeline as its sequence of stages
ComposeCommand(p, path, rev) ==
    IF p.search_mode = "tail"
    THEN TailBuilder(path, Max(SINGLE_HOST_TAIL_RECENT, p.context_span))
         \o (IF p.reverse_order THEN ReverseStage(rev) ELSE <<>>)
    ELSE IF p.keyword = ""
    THEN TailBuilder(path, SINGLE_HOST_TAIL_RECENT)
         \o (IF p.reverse_order THEN ReverseStage(rev) ELSE <<>>)
    ELSE LET grep == IF p.use_regex THEN "grep -nE" ELSE "grep -nF"
             span == IF p.search_mode = "context" /\ p.context_span > 0 THEN p.context_span ELSE 0
             match == IF EndsWithGz(path)
                      THEN <<[stage |-> "gzip -dc", arg |-> 0, file |-> path],
                             [stage |-> grep, arg |-> span, file |-> ""]>>
                      ELSE <<[stage |-> grep, arg |-> span, file |-> path]>>
         IN match \o (IF p.reverse_order
                      THEN <<[stage |-> "tail -n", arg |-> MAX_GREP_LINES_LIMIT, file |-> ""]>>
                           \o ReverseStage(rev)
                      ELSE <<[stage |-> "head -n", arg |-> MAX_GREP_LINES_LIMIT, file |-> ""]>>)

\* has_line_numbers = ('grep -n' in command)
HasLineNumbers(cmd) ==
    \E j \in 1..Len(cmd) : cmd[j].stage \in {"grep -nE", "grep -nF"} \/ ContainsGrepN(cmd[j].file)

(***************************************************************************)
(* LogSearchService._parse_grep_output on sample output lines              *)
(***************************************************************************)
RawLines == {"", "--", "7:alpha", "8-::beta", "10:58:05 gamma", "delta"}

\* LINE_NUM_RE = ^(\d+)([:=\-])(.*)$ : group 1 as int (0: no match)
LineNumGroup1(raw) ==
    CASE raw = "7:alpha" -> 7
      [] raw = "8-::beta" -> 8
      [] raw = "10:58:05 gamma" -> 10
      [] OTHER -> 0

\* group 3 of LINE_NUM_RE
LineNumGroup3(raw) ==
    CASE raw = "7:alpha" -> "alpha"
      [] raw = "8-::beta" -> "::beta"
      [] raw = "10:58:05 gamma" -> "58:05 gamma"
      [] OTHER -> raw

\* content.lstrip(':').lstrip()
LStrip(text) == IF text = "::beta" THEN "beta" ELSE text

\* one iteration of the loop of _parse_grep_output: <<>> when the line is skipped
ParseLine(raw, has_line_numbers) ==
    IF raw = "" THEN <<>>
    ELSE IF has_line_numbers /\ raw = "--" THEN <<>>
    ELSE IF has_line_numbers
         THEN <<[content |-> LStrip(IF LineNumGroup1(raw) # 0 THEN LineNumGroup3(raw) ELSE raw),
                 line_number |-> LineNumGroup1(raw)]>>
         ELSE <<[content |-> raw, line_number |-> 0]>>

RECURSIVE ParseGrepOutput(_, _)
\* _parse_grep_output: the kept lines, in order
ParseGrepOutput(lines, has_line_numbers) ==
    IF lines = <<>> THEN <<>>
    ELSE ParseLine(Head(lines), has_line_numbers) \o ParseGrepOutput(Tail(lines), has_line_numbers)

(***************************************************************************)
(* LogSearchService._search_single_host                                    *)
(***************************************************************************)
\* results[:limit]
Prefix(seq, n) == SubSeq(seq, 1, n)

\* results[-limit:]
Suffix(seq, n) == SubSeq(seq, Len(seq) - n + 1, Len(seq))

\* the truncation keeping the oldest lines instead of the latest
Truncate_KeepOldest(results, p) ==
    IF p.max_lines_state = "int" /\ p.max_lines # 0 /\ Len(results) > p.max_lines
    THEN IF p.reverse_order THEN Suffix(results, p.max_lines) ELSE Prefix(results, p.max_lines)
    ELSE results

\* if search_params.max_lines: limit = ...; if limit and len(results) > limit: ...
Truncate(results, p) ==
    IF p.max_lines_state = "int" /\ p.max_lines # 0 /\ Len(results) > p.max_lines
    THEN IF p.reverse_order THEN Prefix(results, p.max_lines) ELSE Suffix(results, p.max_lines)
    ELSE results

\* the flag raised already when the result has exactly max_lines lines
Truncated_AtLimit(results, p) ==
    p.max_lines_state = "int" /\ p.max_lines # 0 /\ Len(results) >= p.max_lines

\* truncated = True under the same condition
Truncated(results, p) ==
    p.max_lines_state = "int" /\ p.max_lines # 0 /\ Len(results) > p.max_lines

\* the SearchResult of the except branch
FailedResult(i, err) ==
    [ssh_index |-> i, success |-> FALSE, results |-> <<>>, total_results |-> 0,
     has_truncation_info |-> FALSE, original_total_lines |-> 0, truncated |-> FALSE,
     error |-> err]

\* the SearchResult of the try branch
SuccessResult(i, parsed, p) ==
    [ssh_index |-> i, success |-> TRUE, results |-> Truncate(parsed, p),
     total_results |-> Len(Truncate(parsed, p)),
     has_truncation_info |-> TRUE, original_total_lines |-> Len(parsed),
     truncated |-> Truncated(parsed, p), error |-> "None"]

\* what the remote side does during one host search: the pool hands out a connection
\* or not, the command raises (timeout, transport) or returns (stdout, stderr, code)
Envs(outs) ==
    {[conn |-> FALSE, exec |-> "none", stdout |-> <<>>],
     [conn |-> TRUE, exec |-> "raise", stdout |-> <<>>],
     [conn |-> TRUE, exec |-> "stderr", stdout |-> <<>>]}
    \cup {[conn |-> TRUE, exec |-> "ok", stdout |-> o] : o \in outs}

\* the sequences over S of length <= n
RECURSIVE SeqsUpTo(_, _)
SeqsUpTo(S, n) ==
    IF n = 0 THEN {<<>>}
    ELSE LET shorter == SeqsUpTo(S, n - 1)
         IN shorter \cup {Append(q, x) : q \in {r \in shorter : Len(r) = n - 1}, x \in S}

\* lines = stdout.strip().split('\n') ...; parse; truncate; SearchResult
\* any exception on the way gives the failed result
SearchSingleHost(i, p, env, cmd) ==
    IF ~env.conn THEN FailedResult(i, "SSH connect failed")
    ELSE IF env.exec = "raise" THEN FailedResult(i, "execute raised")
    ELSE IF env.exec = "stderr" THEN FailedResult(i, "command failed")
    ELSE IF p.max_lines_state = "absent" THEN FailedResult(i, "AttributeError")
    ELSE SuccessResult(i, ParseGrepOutput(env.stdout, HasLineNumbers(cmd)), p)

\* _get_reverse_command on a cache miss: `which tac` through the pool
ProbeReverse(env) == IF env.conn /\ env.exec = "ok" THEN "tac" ELSE "sed '1!G;h;$!d'"

(***************************************************************************)
(* Strings as sequences of symbols, and the str methods the resolver uses  *)
(***************************************************************************)
\* s.startswith(t)
StartsWith(s, t) == Len(t) <= Len(s) /\ SubSeq(s, 1, Len(t)) = t

\* t in s
RECURSIVE Contains(_, _)
Contains(s, t) ==
    IF Len(s) < Len(t) THEN FALSE
    ELSE StartsWith(s, t) \/ Contains(Tail(s), t)

\* s.replace(t, r): the occurrences of t, left to right, not overlapping
RECURSIVE Replace(_, _, _)
Replace(s, t, r) ==
    IF s = <<>> THEN <<>>
    ELSE IF StartsWith(s, t) THEN r \o Replace(SubSeq(s, Len(t) + 1, Len(s)), t, r)
    ELSE <<Head(s)>> \o Replace(Tail(s), t, r)

\* s.count(t)
RECURSIVE Count(_, _)
Count(s, t) ==
    IF Len(s) < Len(t) THEN 0
    ELSE IF StartsWith(s, t) THEN 1 + Count(SubSeq(s, Len(t) + 1, Len(s)), t)
    ELSE Count(Tail(s), t)

\* s.rfind(c) + 1 for a one-symbol c: the index of its last occurrence, 0 when absent
RECURSIVE RFind(_, _)
RFind(s, c) ==
    IF s = <<>> THEN 0
    ELSE IF s[Len(s)] = c THEN Len(s)
    ELSE RFind(SubSeq(s, 1, Len(s) - 1), c)

\* s.rstrip('/')
RECURSIVE RStripSlash(_)
RStripSlash(s) ==
    IF s # <<>> /\ s[Len(s)] = "/" THEN RStripSlash(SubSeq(s, 1, Len(s) - 1)) ELSE s

\* os.path.dirname (posixpath)
Dirname(p) ==
    LET head == SubSeq(p, 1, RFind(p, "/"))
    IN IF head # <<>> /\ RStripSlash(head) # <<>> THEN RStripSlash(head) ELSE head

\* os.path.basename (posixpath)
Basename(p) == SubSeq(p, RFind(p, "/") + 1, Len(p))

PhN == <<"{", "N", "}">>

PhYYYY == <<"{", "YYYY", "}">>

PhMM == <<"{", "MM", "}">>

PhDD == <<"{", "DD", "}">>

Dot == <<".">>

DigitSeq == <<"0", "1", "2", "3", "4", "5", "6", "7", "8", "9">>

IsDigit(c) == \E i \in 1..Len(DigitSeq) : DigitSeq[i] = c

AllDigits(s) == \A i \in 1..Len(s) : IsDigit(s[i])

\* int(digits)
RECURSIVE IntOf(_)
IntOf(d) ==
    IF d = <<>> THEN 0
    ELSE 10 * IntOf(SubSeq(d, 1, Len(d) - 1))
         + (CHOOSE i \in 1..Len(DigitSeq) : DigitSeq[i] = d[Len(d)]) - 1

(***************************************************************************)
(* FilenameResolver (app/services/utils/filename_resolver.py)              *)
(***************************************************************************)
\* _replace_date_placeholders: {YYYY}, {MM}, {DD} in the order of the dict
ReplaceDatePlaceholders(p, d) ==
    LET p1 == IF Contains(p, PhYYYY) THEN Replace(p, PhYYYY, <<d.Y>>) ELSE p
        p2 == IF Contains(p1, PhMM) THEN Replace(p1, PhMM, <<d.M>>) ELSE p1
    IN IF Contains(p2, PhDD) THEN Replace(p2, PhDD, <<d.D>>) ELSE p2

\* a resolver that asks for a connection whatever the pattern
NeedsRemote_Always(resolved) == TRUE

\* if '{N}' in resolved_pattern
NeedsRemote(resolved) == Contains(resolved, PhN)

\* full_glob_pattern of _resolve_slice_placeholder
FullGlob(pattern) ==
    LET directory == IF Dirname(pattern) # <<>> THEN Dirname(pattern) ELSE Dot
        glob_pattern == Replace(Basename(pattern), PhN, <<"*">>)
        directory_unix == Replace(directory, <<"\\">>, <<"/">>)
    IN IF directory_unix # Dot THEN directory_unix \o <<"/">> \o glob_pattern ELSE glob_pattern

\* _find_remote_files: directory and filename_pattern of the glob
GlobDirectory(glob) ==
    LET unix_glob == Replace(glob, <<"\\">>, <<"/">>)
    IN IF Contains(unix_glob, <<"/">>) THEN SubSeq(unix_glob, 1, RFind(unix_glob, "/") - 1) ELSE Dot

GlobFilename(glob) ==
    LET unix_glob == Replace(glob, <<"\\">>, <<"/">>)
    IN SubSeq(unix_glob, RFind(unix_glob, "/") + 1, Len(unix_glob))

\* the lines `find '<directory>' -maxdepth 1 -name '<filename_pattern>' -type f` prints
\* for the files of the directory, resp. the line of `test -f ... && echo ...`
ListingLines(glob, middles) ==
    LET directory == GlobDirectory(glob)
        name == GlobFilename(glob)
        at(m) == IF directory # <<>> /\ directory[Len(directory)] = "/"
                 THEN directory \o Replace(name, <<"*">>, m)
                 ELSE directory \o <<"/">> \o Replace(name, <<"*">>, m)
    IN IF Contains(name, <<"*">>) \/ Contains(name, <<"?">>)
       THEN [i \in 1..Len(middles) |-> at(middles[i])]
       ELSE IF middles # <<>>
            THEN <<IF directory # Dot THEN directory \o <<"/">> \o name ELSE name>>
            ELSE <<>>

\* the group (\d+) of the regular expression
Group == "(\\d+)"

\* _create_regex_from_pattern: re.escape, then {N} -> (\d+), anchored
CreateRegexFromPattern(pattern) == Replace(pattern, PhN, <<Group>>)

\* re.match(regex_pattern, filename) is not None
RECURSIVE ReMatch(_, _)
ReMatch(re, f) ==
    IF re = <<>> THEN f = <<>>
    ELSE IF Head(re) = Group
         THEN \E k \in 1..Len(f) :
                 AllDigits(SubSeq(f, 1, k)) /\ ReMatch(Tail(re), SubSeq(f, k + 1, Len(f)))
         ELSE f # <<>> /\ Head(f) = Head(re) /\ ReMatch(Tail(re), Tail(f))

HasGroup(re) == \E i \in 1..Len(re) : re[i] = Group

\* match.group(1) of a match: the first group is greedy
RECURSIVE ReGroup1(_, _)
ReGroup1(re, f) ==
    IF Head(re) = Group
    THEN LET ks == {k \in 1..Len(f) :
                       AllDigits(SubSeq(f, 1, k)) /\ ReMatch(Tail(re), SubSeq(f, k + 1, Len(f)))}
         IN SubSeq(f, 1, CHOOSE k \in ks : \A j \in ks : j <= k)
    ELSE ReGroup1(Tail(re), Tail(f))

\* a comparison that lets every matching file win
Better_Always(n_val, max_n) == TRUE

\* if n_val > max_n
Better(n_val, max_n) == n_val > max_n

\* best_file = None
NoFile == <<>>

\* the loop over matching_files: (max_n, best_file) after it
RECURSIVE PickBest(_, _, _, _)
PickBest(files, re, max_n, best) ==
    IF files = <<>> THEN best
    ELSE LET filename == Basename(Head(files))
         IN IF ReMatch(re, filename) /\ Better(IntOf(ReGroup1(re, filename)), max_n)
            THEN PickBest(Tail(files), re, IntOf(ReGroup1(re, filename)), Head(files))
            ELSE PickBest(Tail(files), re, max_n, best)

\* a resolver that falls back to N = 0 whenever no listed name gave a number
ResolveSlice_DefaultOnNoMatch(pattern, files) ==
    LET re == CreateRegexFromPattern(Basename(pattern))
    IN IF files = <<>> THEN [kind |-> "ok", path |-> Replace(pattern, PhN, <<"0">>)]
       ELSE IF ~HasGroup(re) /\ \E i \in 1..Len(files) : ReMatch(re, Basename(files[i]))
            THEN [kind |-> "IndexError", path |-> <<>>]
       ELSE IF PickBest(files, re, -1, NoFile) # NoFile
            THEN [kind |-> "ok", path |-> PickBest(files, re, -1, NoFile)]
       ELSE [kind |-> "ok", path |-> Replace(pattern, PhN, <<"0">>)]

\* _resolve_slice_placeholder after the listing: what it returns or raises
ResolveSlice(pattern, files) ==
    LET re == CreateRegexFromPattern(Basename(pattern))
    IN IF files = <<>> THEN [kind |-> "ok", path |-> Replace(pattern, PhN, <<"0">>)]
       ELSE IF ~HasGroup(re) /\ \E i \in 1..Len(files) : ReMatch(re, Basename(files[i]))
            THEN [kind |-> "IndexError", path |-> <<>>]
       ELSE IF PickBest(files, re, -1, NoFile) # NoFile
            THEN [kind |-> "ok", path |-> PickBest(files, re, -1, NoFile)]
       ELSE [kind |-> "ok", path |-> files[1]]

\* the patterns resolved
Patterns ==
    {<<"a", "{", "N", "}">>,
     <<"a", "{", "N", "}", "b">>,
     <<"/", "d", "/", "a", "{", "N", "}">>,
     <<"a", "{", "YYYY", "}", "{", "MM", "}", "{", "DD", "}", "b">>,
     <<"d", "/", "{", "YYYY", "}", "a", "{", "N", "}">>,
     <<"a", "{", "N", "}", "b", "{", "N", "}">>,
     <<"d", "{", "N", "}", "/", "a">>,
     <<"{", "DD", "}", "{", "x", "}">>,
     <<"a", "b">>}

Dates == {[Y |-> "2024", M |-> "05", D |-> "17"], [Y |-> "1999", M |-> "12", D |-> "31"]}

\* what * stands for in the files the remote directory holds
Middles == {<<"9">>, <<"1", "0">>, <<"1">>, <<"0", "1">>, <<"x">>, <<>>}

\* find prints every file once
Listings ==
    {l \in SeqsUpTo(Middles, MaxFiles) : \A i, j \in 1..Len(l) : i # j => l[i] # l[j]}

\* ssh_conn: None, or a connection whose execute_command returns, raises at the
\* directory test, or raises at the listing
ConnKinds == {"none", "ok", "raise1", "raise2"}

NoOut == [kind |-> "none", path |-> <<>>]

InitResolveVars ==
    /\ rPattern = <<>>
    /\ rDate = [Y |-> "2024", M |-> "05", D |-> "17"]
    /\ rConn = "none"
    /\ rDirExists = FALSE
    /\ rMiddles = <<>>
    /\ rPc = "called"
    /\ rResolved = <<>>
    /\ rFiles = <<>>
    /\ rCmds = 0
    /\ rOut = NoOut

\* resolve_filename up to the call of _resolve_slice_placeholder
ResolveEnter ==
    /\ rPc = "called"
    /\ rResolved' = ReplaceDatePlaceholders(rPattern, rDate)
    /\ IF ~NeedsRemote(rResolved')
       THEN /\ rOut' = [kind |-> "ok", path |-> rResolved']
            /\ rPc' = "done"
       ELSE IF rConn = "none"
            THEN /\ rOut' = [kind |-> "ValueError", path |-> <<>>]
                 /\ rPc' = "done"
            ELSE /\ rOut' = rOut
                 /\ rPc' = "dircheck"
    /\ UNCHANGED <<rPattern, rDate, rConn, rDirExists, rMiddles, rFiles, rCmds>>
    /\ UNCHANGED <<poolVars, searchVars, hostVars, termVars, probeVars, lifeVars, validateVars, decodeVars, engineVars>>

\* _find_remote_files: the directory test; an exception or dir_not_exists gives []
ResolveDirCheck ==
    /\ rPc = "dircheck"
    /\ rCmds' = rCmds + 1
    /\ rPc' = IF rConn = "raise1" \/ ~rDirExists THEN "pick" ELSE "list"
    /\ UNCHANGED <<rPattern, rDate, rConn, rDirExists, rMiddles, rResolved, rFiles, rOut>>
    /\ UNCHANGED <<poolVars, searchVars, hostVars, termVars, probeVars, lifeVars, validateVars, decodeVars, engineVars>>

\* _find_remote_files: the find / test -f command and the split of its output
ResolveList ==
    /\ rPc = "list"
    /\ rCmds' = rCmds + 1
    /\ rFiles' = IF rConn = "raise2" THEN <<>> ELSE ListingLines(FullGlob(rResolved), rMiddles)
    /\ rPc' = "pick"
    /\ UNCHANGED <<rPattern, rDate, rConn, rDirExists, rMiddles, rResolved, rOut>>
    /\ UNCHANGED <<poolVars, searchVars, hostVars, termVars, probeVars, lifeVars, validateVars, decodeVars, engineVars>>

\* _resolve_slice_placeholder from `if not matching_files` on
ResolvePick ==
    /\ rPc = "pick"
    /\ rOut' = ResolveSlice(rResolved, rFiles)
    /\ rPc' = "done"
    /\ UNCHANGED <<rPattern, rDate, rConn, rDirExists, rMiddles, rResolved, rFiles, rCmds>>
    /\ UNCHANGED <<poolVars, searchVars, hostVars, termVars, probeVars, lifeVars, validateVars, decodeVars, engineVars>>

NextResolve ==
    \/ ResolveEnter
    \/ ResolveDirCheck
    \/ ResolveList
    \/ ResolvePick

(***************************************************************************)
(* validate_log_filename_pattern (app/services/utils/filename_resolver.py) *)
(***************************************************************************)
\* the position of the first "}" of s at or after i, 0 when there is none
RECURSIVE NextClose(_, _)
NextClose(s, i) ==
    IF i > Len(s) THEN 0
    ELSE IF s[i] = "}" THEN i
    ELSE NextClose(s, i + 1)

\* re.findall(r'\{[^}]+\}', s): the scan from position i on
RECURSIVE FindAllFrom(_, _)
FindAllFrom(s, i) ==
    IF i > Len(s) THEN <<>>
    ELSE IF s[i] = "{" /\ NextClose(s, i + 1) >= i + 2
         THEN <<SubSeq(s, i, NextClose(s, i + 1))>> \o FindAllFrom(s, NextClose(s, i + 1) + 1)
         ELSE FindAllFrom(s, i + 1)

FindAll(s) == FindAllFrom(s, 1)

\* valid = {'{YYYY}', '{MM}', '{DD}', '{N}'}
ValidPlaceholders == {PhYYYY, PhMM, PhDD, PhN}

\* not pattern.strip()
IsBlank(s) == \A i \in 1..Len(s) : s[i] = " "

\* the error appended for each placeholder outside valid, in order
RECURSIVE InvalidErrors(_)
InvalidErrors(found) ==
    IF found = <<>> THEN <<>>
    ELSE (IF Head(found) \notin ValidPlaceholders THEN <<<<"invalid", Head(found)>>>> ELSE <<>>)
         \o InvalidErrors(Tail(found))

\* a validator that lets {N} occur any number of times
TooManyN_Never(pattern) == FALSE

\* if pattern.count('{N}') > 1
TooManyN(pattern) == Count(pattern, PhN) > 1

\* errors of validate_log_filename_pattern
PatternErrors(pattern) ==
    InvalidErrors(FindAll(pattern))
    \o (IF TooManyN(pattern) THEN <<<<"duplicate", PhN>>>> ELSE <<>>)
    \o (IF IsBlank(pattern) THEN <<<<"blank", <<>>>>>> ELSE <<>>)

\* the symbols patterns are made of
PatternSymbols == {"{", "}", "N", "YYYY", "a", " "}

\* 'app-{YYYY}-{MM}-{DD}-{N}.log' of test_validate_pattern_ok
TestPattern ==
    <<"app-", "{", "YYYY", "}", "-", "{", "MM", "}", "-", "{", "DD", "}", "-", "{", "N", "}", ".log">>

InitValidateVars ==
    /\ vPattern = <<>>
    /\ vPc = "called"
    /\ vValid = FALSE
    /\ vErrors = <<>>

\* validate_log_filename_pattern(pattern)
Validate ==
    /\ vPc = "called"
    /\ vErrors' = PatternErrors(vPattern)
    /\ vValid' = (Len(vErrors') = 0)
    /\ vPc' = "done"
    /\ UNCHANGED vPattern
    /\ UNCHANGED <<poolVars, searchVars, hostVars, termVars, probeVars, lifeVars, resolveVars, decodeVars, engineVars>>

NextValidate == Validate

(***************************************************************************)
(* smart_decode (app/services/utils/encoding.py)                           *)
(***************************************************************************)
\* text = None
NoText == [decoded |-> FALSE, len |-> 0, bad |-> 0, zh |-> FALSE, punct |-> FALSE]

\* ''
EmptyText == [decoded |-> TRUE, len |-> 0, bad |-> 0, zh |-> FALSE, punct |-> FALSE]

\* what a strict decode can give: a text of TextLen characters, `bad` of them
\* U+FFFD, with or without Chinese characters and Chinese punctuation
Texts ==
    {t \in [decoded : {TRUE}, len : {TextLen}, bad : 0..MaxBad, zh : BOOLEAN, punct : BOOLEAN] :
        t.punct => t.zh}

CleanText == [decoded |-> TRUE, len |-> TextLen, bad |-> 0, zh |-> FALSE, punct |-> FALSE]

CleanChinese == [decoded |-> TRUE, len |-> TextLen, bad |-> 0, zh |-> TRUE, punct |-> FALSE]

\* _ENCODING_CANDIDATES
ENCODING_CANDIDATES == <<"utf-8", "gb18030", "gbk", "gb2312", "big5", "shift_jis", "latin-1">>

\* the encoding names of the model; "bogus" names no codec (LookupError)
Encodings == {ENCODING_CANDIDATES[i] : i \in 1..Len(ENCODING_CANDIDATES)} \cup {"bogus"}

\* the outcomes of data.decode(encoding) for one non-empty data: U+FFFD exists
\* only in utf-8 and gb18030, gb18030 extends gbk and gbk extends gb2312,
\* latin-1 decodes every byte
DecodeTable(utf8, gb18030, gbk, gb2312, big5, sjis) ==
    [e \in Encodings |->
        CASE e = "utf-8" -> utf8
          [] e = "gb18030" -> gb18030
          [] e = "gbk" -> IF gbk /\ gb18030.decoded /\ gb18030.bad = 0 THEN gb18030 ELSE NoText
          [] e = "gb2312" -> IF gb2312 /\ gbk /\ gb18030.decoded /\ gb18030.bad = 0
                             THEN gb18030 ELSE NoText
          [] e = "big5" -> big5
          [] e = "shift_jis" -> sjis
          [] e = "latin-1" -> CleanText
          [] OTHER -> NoText]

DecodeTables ==
    {DecodeTable(utf8, gb18030, gbk, gb2312, big5, sjis) :
        utf8 \in {NoText} \cup Texts, gb18030 \in {NoText} \cup Texts,
        gbk \in BOOLEAN, gb2312 \in BOOLEAN,
        big5 \in {NoText, CleanChinese}, sjis \in {NoText, CleanChinese}}

\* a table for the calls in which nothing is decoded by name
PlainTable == [e \in Encodings |-> IF e = "bogus" THEN NoText ELSE CleanText]

\* preferred_encoding
Preferreds == {"None", "utf-8", "gbk", "latin-1", "bogus"}

\* fallback_encodings: None or a list
NoList == [given |-> FALSE, list |-> <<>>]

FallbackLists ==
    {NoList} \cup {[given |-> TRUE, list |-> l] :
                      l \in {<<"utf-8", "gb18030">>, <<"gb18030", "utf-8">>, <<>>}}

\* enable_auto_detect: the default, which every caller uses
enable_auto_detect == TRUE

\* _detect_encoding_by_bom
DataKinds == {"empty", "plain", "utf-8-sig", "utf-16-le", "utf-16-be"}

DetectEncodingByBom(kind) == IF kind \in {"utf-8-sig", "utf-16-le", "utf-16-be"} THEN kind ELSE "None"

\* bom_encoding.replace('-sig', '')
WithoutSig(e) == IF e = "utf-8-sig" THEN "utf-8" ELSE e

\* confidence > 0.9 and best_confidence > 0.5, in thousandths
HIGH_CONFIDENCE == 900

CONFIDENCE_FLOOR == 500

\* _calculate_confidence, in thousandths of a character count:
\* Confidence(t, e) = 1000 * len(t) * confidence
Confidence(t, e) ==
    IF ~t.decoded \/ t.len = 0 THEN 0
    ELSE IF 10 * t.bad > t.len THEN 0
    ELSE LET base == 1000 * t.len - 1000 * t.bad
             punct == IF t.zh /\ t.punct THEN 100 * t.len ELSE 0
             family == IF t.zh /\ e \in {"gbk", "gb18030", "gb2312"} THEN 50 * t.len ELSE 0
         IN IF base + punct + family > 1000 * t.len THEN 1000 * t.len ELSE base + punct + family

\* text.count('�') / max(len(text), 1) < 0.02
FewReplacements(t) == 50 * t.bad < (IF t.len > 1 THEN t.len ELSE 1)

\* fallback_encodings after lines 187-188
EffectiveFallbacks(f) == IF f.given THEN f.list ELSE ENCODING_CANDIDATES

\* encodings_to_try
EncodingsToTry(preferred, f) ==
    (IF preferred # "None" THEN <<preferred>> ELSE <<>>)
    \o SelectSeq(EffectiveFallbacks(f), LAMBDA e : e # preferred)

\* data.decode('utf-8', errors='replace'): the strict text when there is one,
\* otherwise a text with U+FFFD in it
LossyUtf8(tab) ==
    IF tab["utf-8"].decoded THEN tab["utf-8"]
    ELSE [decoded |-> TRUE, len |-> TextLen, bad |-> 1, zh |-> FALSE, punct |-> FALSE]

NoBest == [text |-> NoText, encoding |-> "None", confidence |-> 0]

NotReturned == [text |-> NoText, encoding |-> "None", at |-> "none"]

InitDecodeVars ==
    /\ dKind = "empty"
    /\ dBomOk = FALSE
    /\ dPreferred = "None"
    /\ dFallbacks = NoList
    /\ dTab = PlainTable
    /\ dPc = "called"
    /\ dQueue = <<>>
    /\ dTried = <<>>
    /\ dBest = NoBest
    /\ dOut = NotReturned

\* a comparison that lets a later candidate of equal confidence take over
Improves_OrEqual(confidence, best_confidence) == confidence >= best_confidence

\* confidence > best_confidence
Improves(confidence, best_confidence) == confidence > best_confidence

\* smart_decode up to the loop over encodings_to_try
SmEnter ==
    /\ dPc = "called"
    /\ IF dKind = "empty"
       THEN /\ dOut' = [text |-> EmptyText,
                        encoding |-> IF dPreferred # "None" THEN dPreferred ELSE "utf-8",
                        at |-> "empty"]
            /\ dPc' = "done"
            /\ UNCHANGED <<dTried, dQueue, dBest>>
       ELSE IF DetectEncodingByBom(dKind) # "None" /\ dBomOk
            THEN /\ dOut' = [text |-> CleanText, encoding |-> WithoutSig(dKind), at |-> "bom"]
                 /\ dPc' = "done"
                 /\ dTried' = <<dKind>>
                 /\ UNCHANGED <<dQueue, dBest>>
            ELSE /\ dTried' = IF DetectEncodingByBom(dKind) # "None" THEN <<dKind>> ELSE <<>>
                 /\ dBest' = NoBest
                 /\ IF enable_auto_detect
                    THEN dPc' = "loop" /\ dQueue' = EncodingsToTry(dPreferred, dFallbacks)
                    ELSE dPc' = "preferred" /\ dQueue' = <<>>
                 /\ dOut' = dOut
    /\ UNCHANGED <<dKind, dBomOk, dPreferred, dFallbacks, dTab>>
    /\ UNCHANGED <<poolVars, searchVars, hostVars, termVars, probeVars, lifeVars, resolveVars, validateVars, engineVars>>

\* one turn of `for encoding in encodings_to_try`
SmTry ==
    /\ dPc = "loop"
    /\ dQueue # <<>>
    /\ LET encoding == Head(dQueue)
           text == dTab[encoding]
           confidence == Confidence(text, encoding)
       IN /\ dTried' = Append(dTried, encoding)
          /\ IF text.decoded /\ Improves(confidence, dBest.confidence)
             THEN /\ dBest' = [text |-> text, encoding |-> encoding, confidence |-> confidence]
                  /\ IF confidence > HIGH_CONFIDENCE * text.len
                     THEN /\ dOut' = [text |-> text, encoding |-> encoding, at |-> "high"]
                          /\ dPc' = "done"
                          /\ dQueue' = dQueue
                     ELSE /\ dQueue' = Tail(dQueue)
                          /\ UNCHANGED <<dOut, dPc>>
             ELSE /\ dQueue' = Tail(dQueue)
                  /\ UNCHANGED <<dBest, dOut, dPc>>
    /\ UNCHANGED <<dKind, dBomOk, dPreferred, dFallbacks, dTab>>
    /\ UNCHANGED <<poolVars, searchVars, hostVars, termVars, probeVars, lifeVars, resolveVars, validateVars, engineVars>>

\* after the loop: the best candidate if it is above the floor
SmBest ==
    /\ dPc = "loop"
    /\ dQueue = <<>>
    /\ IF dBest.text.decoded /\ dBest.confidence > CONFIDENCE_FLOOR * dBest.text.len
       THEN /\ dOut' = [text |-> dBest.text, encoding |-> dBest.encoding, at |-> "best"]
            /\ dPc' = "done"
       ELSE /\ dPc' = "preferred"
            /\ dOut' = dOut
    /\ UNCHANGED <<dKind, dBomOk, dPreferred, dFallbacks, dTab, dQueue, dTried, dBest>>
    /\ UNCHANGED <<poolVars, searchVars, hostVars, termVars, probeVars, lifeVars, resolveVars, validateVars, engineVars>>

\* the traditional way: the preferred encoding
SmPreferred ==
    /\ dPc = "preferred"
    /\ IF dPreferred # "None"
       THEN /\ dTried' = Append(dTried, dPreferred)
            /\ IF dTab[dPreferred].decoded /\ FewReplacements(dTab[dPreferred])
               THEN /\ dOut' = [text |-> dTab[dPreferred], encoding |-> dPreferred, at |-> "fallback"]
                    /\ dPc' = "done"
                    /\ dQueue' = dQueue
               ELSE /\ dPc' = "fallbacks"
                    /\ dQueue' = EffectiveFallbacks(dFallbacks)
                    /\ dOut' = dOut
       ELSE /\ dPc' = "fallbacks"
            /\ dQueue' = EffectiveFallbacks(dFallbacks)
            /\ UNCHANGED <<dTried, dOut>>
    /\ UNCHANGED <<dKind, dBomOk, dPreferred, dFallbacks, dTab, dBest>>
    /\ UNCHANGED <<poolVars, searchVars, hostVars, termVars, probeVars, lifeVars, resolveVars, validateVars, engineVars>>

\* the traditional way: one turn of `for encoding in fallback_encodings`
SmFallback ==
    /\ dPc = "fallbacks"
    /\ dQueue # <<>>
    /\ LET encoding == Head(dQueue)
       IN IF encoding = dPreferred
          THEN /\ dQueue' = Tail(dQueue)
               /\ UNCHANGED <<dTried, dOut, dPc>>
          ELSE /\ dTried' = Append(dTried, encoding)
               /\ IF dTab[encoding].decoded /\ FewReplacements(dTab[encoding])
                  THEN /\ dOut' = [text |-> dTab[encoding], encoding |-> encoding, at |-> "fallback"]
                       /\ dPc' = "done"
                       /\ dQueue' = dQueue
                  ELSE /\ dQueue' = Tail(dQueue)
                       /\ UNCHANGED <<dOut, dPc>>
    /\ UNCHANGED <<dKind, dBomOk, dPreferred, dFallbacks, dTab, dBest>>
    /\ UNCHANGED <<poolVars, searchVars, hostVars, termVars, probeVars, lifeVars, resolveVars, validateVars, engineVars>>

\* the last resort: UTF-8 with errors='replace'
SmLossy ==
    /\ dPc = "fallbacks"
    /\ dQueue = <<>>
    /\ dOut' = [text |-> LossyUtf8(dTab), encoding |-> "utf-8", at |-> "lossy"]
    /\ dPc' = "done"
    /\ UNCHANGED <<dKind, dBomOk, dPreferred, dFallbacks, dTab, dQueue, dTried, dBest>>
    /\ UNCHANGED <<poolVars, searchVars, hostVars, termVars, probeVars, lifeVars, resolveVars, validateVars, engineVars>>

NextDecode ==
    \/ SmEnter
    \/ SmTry
    \/ SmBest
    \/ SmPreferred
    \/ SmFallback
    \/ SmLossy

(***************************************************************************)
(* TerminalService: the clock, the idle reaper's test, concurrent senders   *)
(***************************************************************************)
Senders == 1..NSenders

SendMethods == {"send_command", "send_raw", "resize_terminal"}

\* TerminalService(idle_timeout=...), in seconds; > 0 starts the reaper thread
idle_timeout == 1

InitLifeVars ==
    /\ tnow = 0
    /\ last_activity = 0
    /\ command_count = 0
    /\ session_history = 0
    /\ cmdDone = 0
    /\ reported = 0
    /\ sdPc = [s \in Senders |-> "idle"]
    /\ sdKind = [s \in Senders |-> "none"]
    /\ sdRead = [s \in Senders |-> 0]
    /\ sdResult = [s \in Senders |-> "none"]

\* a reaper that takes no session for a victim
IsVictim_Never(ts, cutoff) == FALSE

\* _idle_reaper: if ts < cutoff: victims.append(tid)
IsVictim(ts, cutoff) == ts < cutoff

\* time passes
ClockTick ==
    /\ tnow < MaxClock
    /\ tnow' = tnow + 1
    /\ UNCHANGED <<last_activity, command_count, session_history, cmdDone, reported,
                   sdPc, sdKind, sdRead, sdResult>>
    /\ UNCHANGED <<poolVars, searchVars, hostVars, termVars, probeVars, resolveVars, validateVars, decodeVars, engineVars>>

\* touch: with self._lock: if si: si.last_activity = now
Touch ==
    /\ created
    /\ last_activity' = IF sessions THEN tnow ELSE last_activity
    /\ UNCHANGED <<tnow, command_count, session_history, cmdDone, reported,
                   sdPc, sdKind, sdRead, sdResult>>
    /\ UNCHANGED <<poolVars, searchVars, hostVars, termVars, probeVars, resolveVars, validateVars, decodeVars, engineVars>>

\* _idle_reaper: cutoff = time.time() - self._idle_timeout; under self._lock the
\* session's last_activity is before the cutoff: it is a victim
ReaperScan(c) ==
    /\ idle_timeout > 0
    /\ IsVictim(last_activity, tnow - idle_timeout)
    /\ ReaperSelect(c)

\* send_command / send_raw / resize_terminal: with self._lock the session is looked up
\* (ValueError when it is absent)
SdLookup(s, m) ==
    /\ sdPc[s] = "idle"
    /\ sessions
    /\ m = "send_command" =>
          cmdDone + Cardinality({x \in Senders : sdKind[x] = "send_command"}) < MaxCmds
    /\ sdPc' = [sdPc EXCEPT ![s] = "sending"]
    /\ sdKind' = [sdKind EXCEPT ![s] = m]
    /\ sdResult' = [sdResult EXCEPT ![s] = "none"]
    /\ UNCHANGED <<tnow, last_activity, command_count, session_history, cmdDone, reported, sdRead>>
    /\ UNCHANGED <<poolVars, searchVars, hostVars, termVars, probeVars, resolveVars, validateVars, decodeVars, engineVars>>

\* channel.send / resize_pty returns; si.last_activity = now; send_raw and
\* resize_terminal return, send_command goes on to count
SdSendOk(s) ==
    /\ sdPc[s] = "sending"
    /\ ~chanClosed
    /\ last_activity' = tnow
    /\ IF sdKind[s] = "send_command"
       THEN /\ sdPc' = [sdPc EXCEPT ![s] = "inc_read"]
            /\ UNCHANGED <<sdKind, sdResult>>
       ELSE /\ sdPc' = [sdPc EXCEPT ![s] = "idle"]
            /\ sdKind' = [sdKind EXCEPT ![s] = "none"]
            /\ sdResult' = [sdResult EXCEPT ![s] = "ok"]
    /\ UNCHANGED <<tnow, command_count, session_history, cmdDone, reported, sdRead>>
    /\ UNCHANGED <<poolVars, searchVars, hostVars, termVars, probeVars, resolveVars, validateVars, decodeVars, engineVars>>

\* si.command_count += 1, first half: the attribute is loaded
SdIncRead(s) ==
    /\ sdPc[s] = "inc_read"
    /\ sdRead' = [sdRead EXCEPT ![s] = command_count]
    /\ sdPc' = [sdPc EXCEPT ![s] = "inc_write"]
    /\ UNCHANGED <<tnow, last_activity, command_count, session_history, cmdDone, reported,
                   sdKind, sdResult>>
    /\ UNCHANGED <<poolVars, searchVars, hostVars, termVars, probeVars, resolveVars, validateVars, decodeVars, engineVars>>

\* si.command_count += 1, second half: the sum is stored; session_history.append(...);
\* the call returns
SdIncWrite(s) ==
    /\ sdPc[s] = "inc_write"
    /\ command_count' = sdRead[s] + 1
    /\ session_history' = session_history + 1
    /\ cmdDone' = cmdDone + 1
    /\ sdPc' = [sdPc EXCEPT ![s] = "idle"]
    /\ sdKind' = [sdKind EXCEPT ![s] = "none"]
    /\ sdRead' = [sdRead EXCEPT ![s] = 0]
    /\ sdResult' = [sdResult EXCEPT ![s] = "ok"]
    /\ UNCHANGED <<tnow, last_activity, reported>>
    /\ UNCHANGED <<poolVars, searchVars, hostVars, termVars, probeVars, resolveVars, validateVars, decodeVars, engineVars>>

\* channel.send / resize_pty raises.  send_command: si.status = 'error'; raise
\* RuntimeError.  send_raw: si.status = 'error', the method returns None.
\* resize_terminal: the exception leaves the method, nothing is assigned.
SdSendFail(s) ==
    /\ sdPc[s] = "sending"
    /\ status' = IF sdKind[s] \in {"send_command", "send_raw"} THEN "error" ELSE status
    /\ sdResult' = [sdResult EXCEPT ![s] = IF sdKind[s] = "send_raw" THEN "returned" ELSE "raised"]
    /\ sdPc' = [sdPc EXCEPT ![s] = "idle"]
    /\ sdKind' = [sdKind EXCEPT ![s] = "none"]
    /\ UNCHANGED <<created, sessions, chanClosed, buffer, received, appended, delivered, fired,
                   rdPc, clPc, snPc, snKind, goPc>>
    /\ UNCHANGED <<tnow, last_activity, command_count, session_history, cmdDone, reported, sdRead>>
    /\ UNCHANGED <<poolVars, searchVars, hostVars, probeVars, resolveVars, validateVars, decodeVars, engineVars>>

NextReap ==
    \/ TermCreate
    \/ ClockTick
    \/ Touch
    \/ \E c \in Closers : ReaperScan(c)
    \/ \E c \in Closers : DisconnectCheck(c)
    \/ \E c \in Closers : ClosePop(c)
    \/ \E c \in Closers : CloseChannel(c)
    \/ \E c \in Closers : CloseFire(c)

NextSend ==
    \/ TermCreate
    \/ \E s \in Senders, m \in SendMethods : SdLookup(s, m)
    \/ \E s \in Senders : SdSendOk(s)
    \/ \E s \in Senders : SdIncRead(s)
    \/ \E s \in Senders : SdIncWrite(s)
    \/ \E s \in Senders : SdSendFail(s)
    \/ \E c \in Closers : ClosePop(c)
    \/ \E c \in Closers : CloseChannel(c)
    \/ \E c \in Closers : CloseFire(c)

(***************************************************************************)
(* The command history: send_command from one caller, GET /terminals/<id>  *)
(***************************************************************************)
\* (s.session_history or [])[-10:]
HISTORY_SHOWN == 10

NotShown == [found |-> FALSE, session_history |-> <<>>]

InitHistoryVars == shown = NotShown

\* the entries of the history are named by the order they were appended in
History(n) == [j \in 1..n |-> j]

\* get_terminal (route): 'session_history': (s.session_history or [])[-10:]
HistoryView(history) ==
    IF Len(history) <= HISTORY_SHOWN THEN history
    ELSE SubSeq(history, Len(history) - HISTORY_SHOWN + 1, Len(history))

\* send_command, run from its lookup to its return with no other call in flight:
\* channel.send; si.last_activity = now; si.command_count += 1;
\* si.session_history.append(...)
SendCommand ==
    /\ sessions
    /\ ~chanClosed
    /\ \A s \in Senders : sdPc[s] = "idle"
    /\ session_history < MaxHistory
    /\ last_activity' = tnow
    /\ command_count' = command_count + 1
    /\ session_history' = session_history + 1
    /\ cmdDone' = cmdDone + 1
    /\ UNCHANGED <<tnow, reported, sdPc, sdKind, sdRead, sdResult>>
    /\ UNCHANGED <<poolVars, searchVars, hostVars, termVars, probeVars, resolveVars, validateVars, decodeVars, engineVars>>

\* GET /terminals/<terminal_id>: terminal_service.get_terminal under self._lock;
\* 404 when the session is not registered, else the data with the history view
GetTerminal ==
    /\ created
    /\ shown' = IF sessions
                THEN [found |-> TRUE, session_history |-> HistoryView(History(session_history))]
                ELSE NotShown
    /\ UNCHANGED <<poolVars, searchVars, hostVars, termVars, probeVars, lifeVars, resolveVars, validateVars, decodeVars, encodingVars, readerVars, batchVars, lockVars>>

NextHistory ==
    \/ TermCreate
    \/ SendCommand
    \/ GetTerminal
    \/ \E c \in Closers : ClosePop(c)
    \/ \E c \in Closers : CloseChannel(c)
    \/ \E c \in Closers : CloseFire(c)

(***************************************************************************)
(* The encodings of a session: the reader's decode call, the encoding      *)
(* route, the encoding send_command and send_raw write with                *)
(***************************************************************************)
\* allowed = {'utf-8','gb18030','gbk','big5','shift_jis','latin-1'}
AllowedEncodings == {"utf-8", "gb18030", "gbk"}

\* def smart_decode(data, preferred_encoding=None, fallback_encodings=None,
\*                  enable_auto_detect=True)
SmartDecodeParameters == {"data", "preferred_encoding", "fallback_encodings", "enable_auto_detect"}

\* smart_decode(data, last_good=last_good, forced=forced): the keywords of the call
ChunkCallKeywords == {"last_good", "forced"}

\* a call with a keyword the function does not declare raises TypeError
CallRaisesTypeError(keywords, parameters) == ~(keywords \subseteq parameters)

\* enc = sd.get('forced_encoding') or sd.get('encoding') or 'utf-8'
EffectiveEncoding(f, e) == IF f # "None" THEN f ELSE IF e # "None" THEN e ELSE "utf-8"

InitEncodingVars ==
    /\ forced_encoding = "None"
    /\ sdEncoding = "utf-8"
    /\ last_good = "utf-8"
    /\ forced = "None"
    /\ enPc = "loop"
    /\ chunkLog = <<>>
    /\ sentWith = <<>>

\* POST /terminals/<id>/encoding: under the service lock the override is set or cleared
SetTerminalEncoding(enc) ==
    /\ sessions
    /\ forced_encoding' = enc
    /\ UNCHANGED <<sdEncoding, last_good, forced, enPc, chunkLog, sentWith>>
    /\ UNCHANGED <<poolVars, searchVars, hostVars, termVars, probeVars, lifeVars, resolveVars, validateVars, decodeVars, historyVars, readerVars, batchVars, lockVars>>

\* the reader: data = channel.recv(8192); forced = sd.get('forced_encoding')
ChunkReceive ==
    /\ created /\ ~chanClosed
    /\ enPc = "loop"
    /\ Len(chunkLog) < MaxChunks
    /\ forced' = forced_encoding
    /\ enPc' = "decode"
    /\ UNCHANGED <<forced_encoding, sdEncoding, last_good, chunkLog, sentWith>>
    /\ UNCHANGED <<poolVars, searchVars, hostVars, termVars, probeVars, lifeVars, resolveVars, validateVars, decodeVars, historyVars, readerVars, batchVars, lockVars>>

\* text, detected = _smart_decode_chunk(data, last_good, forced).  When the call
\* raises, except Exception: time.sleep(0.1) and the loop goes on without the chunk.
\* Otherwise: if not forced and detected and detected != last_good: last_good =
\* detected; with self._lock: sd['encoding'] = detected; the text is appended.
ChunkDecode ==
    /\ enPc = "decode"
    /\ enPc' = "loop"
    /\ IF CallRaisesTypeError(ChunkCallKeywords, SmartDecodeParameters)
       THEN /\ chunkLog' = Append(chunkLog, [decoded |-> FALSE, forced |-> forced,
                                         last_good |-> last_good, detected |-> "None"])
            /\ UNCHANGED <<sdEncoding, last_good>>
       ELSE \E detected \in AllowedEncodings :
               /\ chunkLog' = Append(chunkLog, [decoded |-> TRUE, forced |-> forced,
                                            last_good |-> last_good, detected |-> detected])
               /\ IF forced = "None" /\ detected # last_good
                  THEN last_good' = detected /\ sdEncoding' = detected
                  ELSE UNCHANGED <<sdEncoding, last_good>>
    /\ UNCHANGED <<forced_encoding, forced, sentWith>>
    /\ UNCHANGED <<poolVars, searchVars, hostVars, termVars, probeVars, lifeVars, resolveVars, validateVars, decodeVars, historyVars, readerVars, batchVars, lockVars>>

\* send_command / send_raw: sd['channel'].send(text.encode(enc, errors='ignore'))
SendEncoded ==
    /\ sessions /\ ~chanClosed
    /\ Len(sentWith) < MaxCmds
    /\ sentWith' = Append(sentWith, EffectiveEncoding(forced_encoding, sdEncoding))
    /\ UNCHANGED <<forced_encoding, sdEncoding, last_good, forced, enPc, chunkLog>>
    /\ UNCHANGED <<poolVars, searchVars, hostVars, termVars, probeVars, lifeVars, resolveVars, validateVars, decodeVars, historyVars, readerVars, batchVars, lockVars>>

NextEncoding ==
    \/ TermCreate
    \/ \E enc \in AllowedEncodings \cup {"None"} : SetTerminalEncoding(enc)
    \/ ChunkReceive
    \/ ChunkDecode
    \/ SendEncoded

(***************************************************************************)
(* The locks: manager.lock, SSHConnection.lock, TerminalService._lock and  *)
(* a session's sd['lock'], as every operation takes and releases them       *)
(***************************************************************************)
Locks == {"pool", "conn", "registry", "buffer"}

LockThreads == 1..NLockThreads

Acq(l) == [kind |-> "acquire", lock |-> l]

Rel(l) == [kind |-> "release", lock |-> l]

\* code that runs without taking or releasing a lock: the remote call inside
\* or between the with blocks
Run == [kind |-> "run", lock |-> "none"]

LockOps ==
    {"get_connection", "execute_command", "cleanup", "close_all", "create_terminal",
     "send_raw", "send_command", "get_output", "set_locale", "close_terminal",
     "_output_reader", "_idle_reaper"}

\* a get_output that updates last_activity inside the block of the buffer lock and
\* a reader that appends the marker inside the block of the registry lock
LockScript_Nested(op) ==
    IF op \in {"get_connection", "cleanup", "close_all"}
    THEN <<Acq("pool"), Run, Rel("pool")>>
    ELSE IF op = "execute_command"
    THEN <<Acq("conn"), Run, Rel("conn")>>
    ELSE IF op \in {"create_terminal", "close_terminal"}
    THEN <<Acq("registry"), Rel("registry"), Run>>
    ELSE IF op \in {"send_raw", "send_command"}
    THEN <<Acq("registry"), Rel("registry"), Run>>
    ELSE IF op = "get_output"
    THEN <<Acq("buffer"), Acq("registry"), Rel("registry"), Rel("buffer")>>
    ELSE IF op = "set_locale"
    THEN <<Acq("registry"), Rel("registry"), Run, Acq("registry"), Rel("registry")>>
    ELSE IF op = "_output_reader"
    THEN <<Run, Acq("registry"), Rel("registry"), Acq("buffer"), Rel("buffer"),
           Acq("registry"), Acq("buffer"), Rel("buffer"), Rel("registry")>>
    ELSE <<Acq("registry"), Rel("registry"), Acq("registry"), Rel("registry"), Run>>

\* the with blocks of each operation, in the order it executes them.
\* get_connection: with self.lock around is_alive, close, cleanup and connect;
\* the periodic cleanup and close_all: with self.lock; execute_command: with
\* self.lock of the connection around exec_command and the reads;
\* create_terminal, close_terminal, send_raw, send_command: with self._lock for the
\* registration, the pop or the lookup, the channel call outside;
\* get_output: with sd['lock'], then with self._lock; set_locale: with self._lock
\* for the lookup and again for last_locale; _output_reader: recv, with self._lock
\* (the encoding or the locale marker), with sd['lock'] (append), and at the end
\* with sd['lock'] (marker), then with self._lock (status); _idle_reaper: with
\* self._lock for the scan, then close_terminal
LockScript(op) ==
    IF op \in {"get_connection", "cleanup", "close_all"}
    THEN <<Acq("pool"), Run, Rel("pool")>>
    ELSE IF op = "execute_command"
    THEN <<Acq("conn"), Run, Rel("conn")>>
    ELSE IF op \in {"create_terminal", "close_terminal"}
    THEN <<Acq("registry"), Rel("registry"), Run>>
    ELSE IF op \in {"send_raw", "send_command"}
    THEN <<Acq("registry"), Rel("registry"), Run>>
    ELSE IF op = "get_output"
    THEN <<Acq("buffer"), Rel("buffer"), Acq("registry"), Rel("registry")>>
    ELSE IF op = "set_locale"
    THEN <<Acq("registry"), Rel("registry"), Run, Acq("registry"), Rel("registry")>>
    ELSE IF op = "_output_reader"
    THEN <<Run, Acq("registry"), Rel("registry"), Acq("buffer"), Rel("buffer"),
           Acq("buffer"), Rel("buffer"), Acq("registry"), Rel("registry")>>
    ELSE <<Acq("registry"), Rel("registry"), Acq("registry"), Rel("registry"), Run>>

InitLockVars ==
    /\ lkOp = [t \in LockThreads |-> "none"]
    /\ lkPos = [t \in LockThreads |-> 0]
    /\ lkHeld = [l \in Locks |-> NoThread]

\* the instruction thread t executes next
LockNext(t) == LockScript(lkOp[t])[lkPos[t] + 1]

LockBusy(t) == lkOp[t] # "none" /\ lkPos[t] < Len(LockScript(lkOp[t]))

\* a thread enters an operation; the threads are numbered in the order they enter
LockCall(t, op) ==
    /\ lkOp[t] = "none"
    /\ \A u \in LockThreads : u < t => lkOp[u] # "none"
    /\ lkOp' = [lkOp EXCEPT ![t] = op]
    /\ UNCHANGED <<lkPos, lkHeld>>
    /\ UNCHANGED <<poolVars, searchVars, hostVars, termVars, probeVars, lifeVars, resolveVars, validateVars, decodeVars,
                   historyVars, encodingVars, readerVars, batchVars>>

\* with lock: __enter__ returns when the lock is free
LockAcquire(t) ==
    /\ LockBusy(t)
    /\ LockNext(t).kind = "acquire"
    /\ lkHeld[LockNext(t).lock] = NoThread
    /\ lkHeld' = [lkHeld EXCEPT ![LockNext(t).lock] = t]
    /\ lkPos' = [lkPos EXCEPT ![t] = @ + 1]
    /\ UNCHANGED lkOp
    /\ UNCHANGED <<poolVars, searchVars, hostVars, termVars, probeVars, lifeVars, resolveVars, validateVars, decodeVars,
                   historyVars, encodingVars, readerVars, batchVars>>

\* the end of the with block, by return or by exception
LockRelease(t) ==
    /\ LockBusy(t)
    /\ LockNext(t).kind = "release"
    /\ lkHeld' = [lkHeld EXCEPT ![LockNext(t).lock] = NoThread]
    /\ lkPos' = [lkPos EXCEPT ![t] = @ + 1]
    /\ UNCHANGED lkOp
    /\ UNCHANGED <<poolVars, searchVars, hostVars, termVars, probeVars, lifeVars, resolveVars, validateVars, decodeVars,
                   historyVars, encodingVars, readerVars, batchVars>>

\* the code between two lock instructions returns or raises
LockRun(t) ==
    /\ LockBusy(t)
    /\ LockNext(t).kind = "run"
    /\ lkPos' = [lkPos EXCEPT ![t] = @ + 1]
    /\ UNCHANGED <<lkOp, lkHeld>>
    /\ UNCHANGED <<poolVars, searchVars, hostVars, termVars, probeVars, lifeVars, resolveVars, validateVars, decodeVars,
                   historyVars, encodingVars, readerVars, batchVars>>

LockStep(t) == LockAcquire(t) \/ LockRelease(t) \/ LockRun(t)

NextLocks ==
    \/ \E t \in LockThreads, op \in LockOps : LockCall(t, op)
    \/ \E t \in LockThreads : LockAcquire(t)
    \/ \E t \in LockThreads : LockRelease(t)
    \/ \E t \in LockThreads : LockRun(t)

\* the further state of the engine at construction
InitEngineVars ==
    InitHistoryVars /\ InitEncodingVars /\ rdStarted = 0 /\ sOverdue = {} /\ InitLockVars

(***************************************************************************)
(* LogSearchService._get_reverse_command, called from worker threads       *)
(***************************************************************************)
Callers == 1..NCallers

Endpoints == 1..NEndpoints

\* the key is not in _reverse_cmd_cache
NotCached == "absent"

\* the remote side during `which tac`
ProbeEnvs == Envs({<<"/usr/bin/tac">>})

InitProbeVars ==
    /\ rcCache = [e \in Endpoints |-> NotCached]
    /\ rcPc = [w \in Callers |-> "idle"]
    /\ rcKey = [w \in Callers |-> NoKey]
    /\ rcCmd = [w \in Callers |-> NotCached]
    /\ rcRet = [w \in Callers |-> NotCached]
    /\ rcProbes = [e \in Endpoints |-> 0]

\* if cache_key in self._reverse_cmd_cache: return self._reverse_cmd_cache[cache_key]
RcHit(w, e) ==
    /\ rcPc[w] = "idle"
    /\ rcCache[e] # NotCached
    /\ rcRet' = [rcRet EXCEPT ![w] = rcCache[e]]
    /\ UNCHANGED <<rcCache, rcPc, rcKey, rcCmd, rcProbes>>
    /\ UNCHANGED <<poolVars, searchVars, hostVars, termVars, lifeVars, resolveVars, validateVars, decodeVars, engineVars>>

\* the key is not cached: the caller goes on to the try block
RcMiss(w, e) ==
    /\ rcPc[w] = "idle"
    /\ rcCache[e] = NotCached
    /\ rcPc' = [rcPc EXCEPT ![w] = "probe"]
    /\ rcKey' = [rcKey EXCEPT ![w] = e]
    /\ UNCHANGED <<rcCache, rcCmd, rcRet, rcProbes>>
    /\ UNCHANGED <<poolVars, searchVars, hostVars, termVars, lifeVars, resolveVars, validateVars, decodeVars, engineVars>>

\* conn = get_connection(...); if conn: execute_command("which tac") ...; except: sed
RcProbe(w, env) ==
    /\ rcPc[w] = "probe"
    /\ rcCmd' = [rcCmd EXCEPT ![w] = ProbeReverse(env)]
    /\ rcProbes' = [rcProbes EXCEPT ![rcKey[w]] = IF env.conn THEN @ + 1 ELSE @]
    /\ rcPc' = [rcPc EXCEPT ![w] = "store"]
    /\ UNCHANGED <<rcCache, rcKey, rcRet>>
    /\ UNCHANGED <<poolVars, searchVars, hostVars, termVars, lifeVars, resolveVars, validateVars, decodeVars, engineVars>>

\* self._reverse_cmd_cache[cache_key] = cmd; return cmd
RcStore(w) ==
    /\ rcPc[w] = "store"
    /\ rcCache' = [rcCache EXCEPT ![rcKey[w]] = rcCmd[w]]
    /\ rcRet' = [rcRet EXCEPT ![w] = rcCmd[w]]
    /\ rcPc' = [rcPc EXCEPT ![w] = "idle"]
    /\ rcKey' = [rcKey EXCEPT ![w] = NoKey]
    /\ UNCHANGED <<rcCmd, rcProbes>>
    /\ UNCHANGED <<poolVars, searchVars, hostVars, termVars, lifeVars, resolveVars, validateVars, decodeVars, engineVars>>

NextProbe ==
    \/ \E w \in Callers, e \in Endpoints : RcHit(w, e)
    \/ \E w \in Callers, e \in Endpoints : RcMiss(w, e)
    \/ \E w \in Callers, env \in ProbeEnvs : RcProbe(w, env)
    \/ \E w \in Callers : RcStore(w)

(***************************************************************************)
(* Initial values                                                          *)
(***************************************************************************)
NoResult == FailedResult(-1, "none")

NoEnv == [conn |-> FALSE, exec |-> "none", stdout |-> <<>>]

HostIdx == 0..(MaxHosts - 1)

InitSearchVars ==
    /\ sPc = "called"
    /\ sN = 0
    /\ sParams = MkParams("", "keyword", 5, FALSE, FALSE, "absent", 0)
    /\ sTask = [i \in HostIdx |-> "none"]
    /\ sTaskResult = [i \in HostIdx |-> NoResult]
    /\ sResults = <<>>
    /\ sOutcome = "none"
    /\ sHosts = <<>>
    /\ sTotal = 0
    /\ sCache = {}
    /\ sNet = [acquire |-> 0, probe |-> 0, build |-> 0, exec |-> 0]

InitHostVars ==
    /\ hPc = "called"
    /\ hEnv = NoEnv
    /\ hPath = "/var/log/app.log"
    /\ hCmd = <<>>
    /\ hParsed = <<>>
    /\ hOut = NoResult

(***************************************************************************)
(* SpecHost: one call of _search_single_host, step by step                 *)
(***************************************************************************)
\* command, resolved_file_path = self._build_search_command(...)
HostBuild ==
    /\ hPc = "called"
    /\ hCmd' = ComposeCommand(sParams, hPath, ProbeReverse(hEnv))
    /\ hPc' = "built"
    /\ UNCHANGED <<hEnv, hPath, hParsed, hOut, poolVars, searchVars, termVars, probeVars, lifeVars, resolveVars, validateVars, decodeVars, engineVars>>

\* conn = get_connection(...); execute_command(...); lines; _parse_grep_output
HostExecParse ==
    /\ hPc = "built"
    /\ hEnv.conn /\ hEnv.exec = "ok"
    /\ hParsed' = ParseGrepOutput(hEnv.stdout, HasLineNumbers(hCmd))
    /\ hPc' = "parsed"
    /\ UNCHANGED <<hEnv, hPath, hCmd, hOut, poolVars, searchVars, termVars, probeVars, lifeVars, resolveVars, validateVars, decodeVars, engineVars>>

\* no connection, or the command raised or failed: the except branch returns
HostExecFail ==
    /\ hPc = "built"
    /\ ~(hEnv.conn /\ hEnv.exec = "ok")
    /\ hOut' = SearchSingleHost(0, sParams, hEnv, hCmd)
    /\ hPc' = "returned"
    /\ UNCHANGED <<hEnv, hPath, hCmd, hParsed, poolVars, searchVars, termVars, probeVars, lifeVars, resolveVars, validateVars, decodeVars, engineVars>>

\* the truncation and the SearchResult (or AttributeError and the except branch)
HostFinish ==
    /\ hPc = "parsed"
    /\ hOut' = SearchSingleHost(0, sParams, hEnv, hCmd)
    /\ hPc' = "returned"
    /\ UNCHANGED <<hEnv, hPath, hCmd, hParsed, poolVars, searchVars, termVars, probeVars, lifeVars, resolveVars, validateVars, decodeVars, engineVars>>

\* the SearchParams objects of the single-host runs
HostParams ==
    {MkParams(kw, mode, 5, FALSE, rev, st, ml) :
        kw \in {"", "error"}, mode \in {"keyword", "context", "tail"}, rev \in BOOLEAN,
        st \in {"int"}, ml \in 0..MaxCap}
    \cup {MkParams(kw, mode, 5, FALSE, rev, st, 0) :
        kw \in {"", "error"}, mode \in {"keyword", "context", "tail"}, rev \in BOOLEAN,
        st \in MaxLinesStates \ {"int"}}

\* the valid SearchParams objects a command is built from
BuildParams ==
    {MkParams(kw, mode, span, rx, rev, "int", 0) :
        kw \in {"", "error"}, mode \in {"keyword", "context", "tail"}, span \in {0, 5, 50},
        rx \in BOOLEAN, rev \in BOOLEAN}

InitBuild ==
    /\ InitPoolVars /\ InitResolveVars /\ InitValidateVars /\ InitDecodeVars /\ InitEngineVars
    /\ InitLifeVars /\ InitProbeVars /\ InitTermVars
    /\ sPc = "called"
    /\ sN = 1
    /\ sParams \in BuildParams
    /\ sTask = [i \in HostIdx |-> "none"]
    /\ sTaskResult = [i \in HostIdx |-> NoResult]
    /\ sResults = <<>>
    /\ sOutcome = "none"
    /\ sHosts = <<>>
    /\ sTotal = 0
    /\ sCache = {}
    /\ sNet = [acquire |-> 0, probe |-> 0, build |-> 0, exec |-> 0]
    /\ hPc = "called"
    /\ hEnv \in Envs({<<>>})
    /\ hPath \in Paths
    /\ hCmd = <<>>
    /\ hParsed = <<>>
    /\ hOut = NoResult

\* _build_search_command alone
NextBuild == HostBuild

InitHost ==
    /\ InitPoolVars
    /\ InitResolveVars /\ InitValidateVars /\ InitDecodeVars /\ InitEngineVars
    /\ InitLifeVars
    /\ InitProbeVars
    /\ InitTermVars
    /\ sPc = "called"
    /\ sN = 1
    /\ sParams \in HostParams
    /\ sTask = [i \in HostIdx |-> "none"]
    /\ sTaskResult = [i \in HostIdx |-> NoResult]
    /\ sResults = <<>>
    /\ sOutcome = "none"
    /\ sHosts = <<>>
    /\ sTotal = 0
    /\ sCache = {}
    /\ sNet = [acquire |-> 0, probe |-> 0, build |-> 0, exec |-> 0]
    /\ hPc = "called"
    /\ hEnv \in Envs(SeqsUpTo(RawLines, MaxOut))
    /\ hPath \in Paths
    /\ hCmd = <<>>
    /\ hParsed = <<>>
    /\ hOut = NoResult

NextHost ==
    \/ HostBuild
    \/ HostExecParse
    \/ HostExecFail
    \/ HostFinish

(***************************************************************************)
(* SpecSearch: one call of search_multi_host                               *)
(***************************************************************************)
\* the fields the MultiHostSearchResult dataclass declares
MultiHostSearchResultFields ==
    {"log_name", "keyword", "search_params", "total_hosts", "hosts", "total_results",
     "total_search_time", "parallel_execution"}

\* the keyword arguments of `return MultiHostSearchResult(...)` in search_multi_host
ReturnKwargs ==
    {"log_name", "keyword", "search_params", "total_hosts", "hosts", "total_results",
     "total_search_time", "parallel_execution", "aggregated_truncation"}

RECURSIVE Insert(_, _)
Insert(r, sorted) ==
    IF sorted = <<>> THEN <<r>>
    ELSE IF r.ssh_index < Head(sorted).ssh_index THEN <<r>> \o sorted
    ELSE <<Head(sorted)>> \o Insert(r, Tail(sorted))

\* results left in the order the futures completed
SortByIndex_NoSort(seq) == seq

RECURSIVE SortByIndex(_)
\* results.sort(key=lambda r: r.ssh_index): stable, ascending
SortByIndex(seq) ==
    IF seq = <<>> THEN <<>>
    ELSE Insert(seq[Len(seq)], SortByIndex(SubSeq(seq, 1, Len(seq) - 1)))

\* the successful hosts counted instead of their lines
TotalResults_CountHosts(seq) == Cardinality({a \in 1..Len(seq) : seq[a].success})

RECURSIVE TotalResults(_)
\* sum(r.total_results for r in results if r.success)
TotalResults(seq) ==
    IF seq = <<>> THEN 0
    ELSE (IF Head(seq).success THEN Head(seq).total_results ELSE 0) + TotalResults(Tail(seq))

\* the command a host task builds (the log path of every host is the plain file)
TaskCommand(p, env) == ComposeCommand(p, "/var/log/app.log", ProbeReverse(env))

\* the remote calls of one _search_single_host: the reverse probe on a cache miss
\* (get_connection, `which tac`), the command build, get_connection, execute_command
NetAfterHost(net, env, miss) ==
    [acquire |-> net.acquire + (IF miss THEN 2 ELSE 1),
     probe |-> net.probe + (IF miss THEN 1 ELSE 0),
     build |-> net.build + 1,
     exec |-> net.exec + (IF env.conn THEN (IF miss THEN 2 ELSE 1) ELSE 0)]

\* what the hosts of a multi-host run answer
SearchOutputs == {<<>>, <<"7:alpha">>, <<"7:alpha", "delta">>}

\* search_params.validate(); if not sshs: raise ValueError; then the single-host call is
\* next, or one future per host is submitted
SearchStart ==
    /\ sPc = "called"
    /\ IF ValidationErrors(sParams) # {}
       THEN /\ sOutcome' = "ValueError: validation"
            /\ sPc' = "done"
            /\ UNCHANGED sTask
       ELSE IF sN = 0
       THEN /\ sOutcome' = "ValueError: no hosts"
            /\ sPc' = "done"
            /\ UNCHANGED sTask
       ELSE IF sN = 1
       THEN /\ sPc' = "single"
            /\ UNCHANGED <<sOutcome, sTask>>
       ELSE /\ sPc' = "collecting"
            /\ sTask' = [i \in HostIdx |-> IF i < sN THEN "pending" ELSE "none"]
            /\ UNCHANGED sOutcome
    /\ UNCHANGED <<sN, sParams, sTaskResult, sResults, sHosts, sTotal, sCache, sNet, poolVars, hostVars, termVars, probeVars, lifeVars, resolveVars, validateVars, decodeVars, engineVars>>

\* results.append(self._search_single_host(ssh0, log_path0, search_params, 0))
SearchSingle(env) ==
    /\ sPc = "single"
    /\ sResults' = <<SearchSingleHost(0, sParams, env, TaskCommand(sParams, env))>>
    /\ sNet' = NetAfterHost(sNet, env, 0 \notin sCache)
    /\ sCache' = sCache \cup {0}
    /\ sPc' = "collected"
    /\ UNCHANGED <<sN, sParams, sTask, sTaskResult, sOutcome, sHosts, sTotal, poolVars, hostVars, termVars, probeVars, lifeVars, resolveVars, validateVars, decodeVars, engineVars>>

\* a worker of the executor runs _search_single_host(cfg, path, search_params, i) to its end
TaskFinish(i, env) ==
    /\ sPc = "collecting"
    /\ sTask[i] = "pending"
    /\ sTaskResult' = [sTaskResult EXCEPT ![i] = SearchSingleHost(i, sParams, env, TaskCommand(sParams, env))]
    /\ sTask' = [sTask EXCEPT ![i] = "finished"]
    /\ sNet' = NetAfterHost(sNet, env, i \notin sCache)
    /\ sCache' = sCache \cup {i}
    /\ UNCHANGED <<sPc, sN, sParams, sResults, sOutcome, sHosts, sTotal, poolVars, hostVars, termVars, probeVars, lifeVars, resolveVars, validateVars, decodeVars, engineVars>>

\* LogSearchService.close: the executor is shut down with cancel_futures=True and a
\* future that has not started is cancelled
TaskCancel(i) ==
    /\ sPc = "collecting"
    /\ sTask[i] = "pending"
    /\ sTask' = [sTask EXCEPT ![i] = "cancelled"]
    /\ UNCHANGED <<sPc, sN, sParams, sTaskResult, sResults, sOutcome, sHosts, sTotal, sCache, sNet, poolVars, hostVars, termVars, probeVars, lifeVars, resolveVars, validateVars, decodeVars, engineVars>>

\* for fut in as_completed(fut_map): results.append(fut.result(...)), or the failed
\* SearchResult of the except branch when the future raises
Collect(i) ==
    /\ sPc = "collecting"
    /\ sTask[i] \in {"finished", "cancelled"}
    /\ sResults' = Append(sResults, IF sTask[i] = "finished" THEN sTaskResult[i]
                                    ELSE FailedResult(i, "CancelledError"))
    /\ sTask' = [sTask EXCEPT ![i] = "collected"]
    /\ UNCHANGED <<sPc, sN, sParams, sTaskResult, sOutcome, sHosts, sTotal, sCache, sNet, poolVars, hostVars, termVars, probeVars, lifeVars, resolveVars, validateVars, decodeVars, engineVars>>

\* results.sort(key=...); total = sum(...): sHosts is the list after the sort
Aggregate ==
    /\ \/ sPc = "collected"
       \/ sPc = "collecting" /\ \A i \in HostIdx : i < sN => sTask[i] = "collected"
    /\ sHosts' = SortByIndex(sResults)
    /\ sTotal' = TotalResults(SortByIndex(sResults))
    /\ sPc' = "aggregated"
    /\ UNCHANGED <<sN, sParams, sTask, sTaskResult, sResults, sOutcome, sCache, sNet, poolVars, hostVars, termVars, probeVars, lifeVars, resolveVars, validateVars, decodeVars, engineVars>>

\* return MultiHostSearchResult(..., hosts=results, ..., aggregated_truncation=...):
\* a keyword the dataclass does not declare makes its __init__ raise TypeError
SearchReturn ==
    /\ sPc = "aggregated"
    /\ sOutcome' = IF ReturnKwargs \subseteq MultiHostSearchResultFields THEN "returned" ELSE "TypeError"
    /\ sPc' = "done"
    /\ UNCHANGED <<sN, sParams, sTask, sTaskResult, sResults, sHosts, sTotal, sCache, sNet, poolVars, hostVars, termVars, probeVars, lifeVars, resolveVars, validateVars, decodeVars, engineVars>>

\* the SearchParams objects of the multi-host runs
SearchParamsSet ==
    {MkParams("error", mode, span, FALSE, FALSE, st, 1) :
        mode \in {"keyword", "tail", "fuzzy"}, span \in {-1, 5, 51}, st \in {"absent", "int"}}

InitSearch ==
    /\ InitPoolVars
    /\ InitResolveVars /\ InitValidateVars /\ InitDecodeVars /\ InitEngineVars
    /\ InitLifeVars
    /\ InitProbeVars
    /\ InitTermVars
    /\ InitHostVars
    /\ sPc = "called"
    /\ sN \in 0..MaxHosts
    /\ sParams \in SearchParamsSet
    /\ sTask = [i \in HostIdx |-> "none"]
    /\ sTaskResult = [i \in HostIdx |-> NoResult]
    /\ sResults = <<>>
    /\ sOutcome = "none"
    /\ sHosts = <<>>
    /\ sTotal = 0
    /\ sCache = {}
    /\ sNet = [acquire |-> 0, probe |-> 0, build |-> 0, exec |-> 0]

\* SEARCH_EXEC_TIMEOUT seconds go by while the task of host i is still running
\* (it waits for a worker, for the pool lock, for the connection's lock, for the
\* connect or for the command)
TaskOverdue(i) ==
    /\ sPc = "collecting"
    /\ sTask[i] = "pending"
    /\ i \notin sOverdue
    /\ sOverdue' = sOverdue \cup {i}
    /\ UNCHANGED <<poolVars, searchVars, hostVars, termVars, probeVars, lifeVars, resolveVars, validateVars, decodeVars,
                   historyVars, encodingVars, readerVars, lockVars>>

NextSearch ==
    \/ SearchStart
    \/ \E env \in Envs(SearchOutputs) : SearchSingle(env)
    \/ \E i \in HostIdx, env \in Envs(SearchOutputs) : TaskFinish(i, env)
    \/ \E i \in HostIdx : TaskCancel(i)
    \/ \E i \in HostIdx : Collect(i)
    \/ Aggregate
    \/ SearchReturn

vars == <<poolVars, searchVars, hostVars, termVars, probeVars, lifeVars, resolveVars, validateVars, decodeVars, engineVars>>

InitPool == InitPoolVars /\ InitSearchVars /\ InitHostVars /\ InitTermVars /\ InitProbeVars /\ InitLifeVars /\ InitResolveVars /\ InitValidateVars /\ InitDecodeVars /\ InitEngineVars

SpecPool == InitPool /\ [][NextPool]_vars

SpecSearch == InitSearch /\ [][NextSearch]_vars

SpecBuild == InitBuild /\ [][NextBuild]_vars

SpecHost == InitHost /\ [][NextHost]_vars

InitTerm == InitPoolVars /\ InitSearchVars /\ InitHostVars /\ InitTermVars /\ InitProbeVars /\ InitLifeVars /\ InitResolveVars /\ InitValidateVars /\ InitDecodeVars /\ InitEngineVars

SpecTerm == InitTerm /\ [][NextTerm]_vars

InitProbe == InitPoolVars /\ InitSearchVars /\ InitHostVars /\ InitTermVars /\ InitProbeVars /\ InitLifeVars /\ InitResolveVars /\ InitValidateVars /\ InitDecodeVars /\ InitEngineVars

SpecProbe == InitProbe /\ [][NextProbe]_vars

InitLife == InitPoolVars /\ InitSearchVars /\ InitHostVars /\ InitTermVars /\ InitProbeVars /\ InitLifeVars /\ InitResolveVars /\ InitValidateVars /\ InitDecodeVars /\ InitEngineVars

SpecSend == InitLife /\ [][NextSend]_vars

\* the reaper and the closes next to the clock and the calls that count as activity
NextIdle ==
    \/ TermCreate
    \/ ClockTick
    \/ Touch
    \/ \E c \in Closers : ReaperScan(c)
    \/ \E c \in Closers : DisconnectCheck(c)
    \/ \E c \in Closers : ClosePop(c)
    \/ \E c \in Closers : CloseChannel(c)
    \/ \E c \in Closers : CloseFire(c)
    \/ \E s \in Senders, m \in SendMethods : SdLookup(s, m)
    \/ \E s \in Senders : SdSendOk(s)
    \/ \E s \in Senders : SdIncRead(s)
    \/ \E s \in Senders : SdIncWrite(s)
    \/ \E s \in Senders : SdSendFail(s)

SpecIdle == InitLife /\ [][NextIdle]_vars

SpecHistory == InitLife /\ [][NextHistory]_vars

SpecEncoding == InitLife /\ [][NextEncoding]_vars

\* a multi-host search whose tasks may take longer than the timeout
InitBatch ==
    /\ InitSearch
    /\ sN > 1
    /\ ValidationErrors(sParams) = {}

NextBatch ==
    \/ SearchStart
    \/ \E i \in HostIdx, env \in Envs(SearchOutputs) : TaskFinish(i, env)
    \/ \E i \in HostIdx : TaskOverdue(i)
    \/ \E i \in HostIdx : TaskCancel(i)
    \/ \E i \in HostIdx : Collect(i)
    \/ Aggregate
    \/ SearchReturn

SpecBatch == InitBatch /\ [][NextBatch]_vars

\* every thread is scheduled again and again; the remote calls made inside a with
\* block carry a timeout
FairLocks == \A t \in LockThreads : WF_vars(LockStep(t))

SpecLocks == InitLife /\ [][NextLocks]_vars /\ FairLocks

\* the reader next to everything that closes the channel
NextReader ==
    \/ TermCreate
    \/ RemoteCloses
    \/ ReaderStart
    \/ \E text \in {<<>>, <<ToString(received + 1)>>} : ReaderAppend(text)
    \/ ReaderBreak
    \/ \E tail \in FinalTails : ReaderFinal(tail)
    \/ ReaderStatus
    \/ \E c \in Closers : ReaperSelect(c)
    \/ \E c \in Closers : DisconnectCheck(c)
    \/ \E c \in Closers : ClosePop(c)
    \/ \E c \in Closers : CloseChannel(c)
    \/ \E c \in Closers : CloseFire(c)

\* the reader is a thread of its own: it is scheduled again and again, and the
\* locks it takes are held by others for a bounded time only
FairReader ==
    /\ WF_vars(ReaderStart)
    /\ WF_vars(ReaderBreak)
    /\ WF_vars(\E tail \in FinalTails : ReaderFinal(tail))
    /\ WF_vars(ReaderStatus)

SpecReader == InitTerm /\ [][NextReader]_vars /\ FairReader

\* the reaper thread loops for ever and a thread inside close_terminal runs on
FairReap ==
    /\ WF_vars(\E c \in Closers : ReaperScan(c))
    /\ \A c \in Closers : WF_vars(clPc[c] = "selected" /\ ClosePop(c))
    /\ \A c \in Closers : WF_vars(CloseChannel(c))
    /\ \A c \in Closers : WF_vars(CloseFire(c))

SpecReap == InitLife /\ [][NextReap]_vars /\ FairReap

InitResolve ==
    /\ InitPoolVars /\ InitSearchVars /\ InitHostVars /\ InitTermVars /\ InitProbeVars /\ InitLifeVars
    /\ InitValidateVars /\ InitDecodeVars /\ InitEngineVars
    /\ rPattern \in Patterns
    /\ rDate \in Dates
    /\ rConn \in ConnKinds
    /\ rDirExists \in BOOLEAN
    /\ rMiddles \in Listings
    /\ rPc = "called"
    /\ rResolved = <<>>
    /\ rFiles = <<>>
    /\ rCmds = 0
    /\ rOut = NoOut

SpecResolve == InitResolve /\ [][NextResolve]_vars

InitValidate ==
    /\ InitPoolVars /\ InitSearchVars /\ InitHostVars /\ InitTermVars /\ InitProbeVars /\ InitLifeVars
    /\ InitResolveVars /\ InitDecodeVars /\ InitEngineVars
    /\ vPattern \in SeqsUpTo(PatternSymbols, MaxPatLen) \cup {TestPattern}
    /\ vPc = "called"
    /\ vValid = FALSE
    /\ vErrors = <<>>

SpecValidate == InitValidate /\ [][NextValidate]_vars

InitDecode ==
    /\ InitPoolVars /\ InitSearchVars /\ InitHostVars /\ InitTermVars /\ InitProbeVars /\ InitLifeVars
    /\ InitResolveVars /\ InitValidateVars /\ InitEngineVars
    /\ dKind \in DataKinds
    /\ dBomOk \in (IF DetectEncodingByBom(dKind) # "None" THEN BOOLEAN ELSE {FALSE})
    /\ dPreferred \in Preferreds
    /\ dFallbacks \in FallbackLists
    /\ dTab \in (IF dKind = "empty" \/ dBomOk THEN {PlainTable}
                 ELSE IF dKind = "plain" THEN DecodeTables
                 ELSE {tab \in DecodeTables : tab["utf-8"] = NoText})
    /\ dPc = "called"
    /\ dQueue = <<>>
    /\ dTried = <<>>
    /\ dBest = NoBest
    /\ dOut = NotReturned

SpecDecode == InitDecode /\ [][NextDecode]_vars

(***************************************************************************)
(* C1: at most one command is in flight on a pooled connection at any      *)
(* time: a caller's command runs only while it holds the connection's      *)
(* lock, so a second caller starts after the first returned or failed.     *)
(***************************************************************************)
InFlight(c) == {t \in Threads : pc[t] = "ex_run" /\ tConn[t] = c}

C1_SerializedExecution ==
    \A c \in Inst : /\ Cardinality(InFlight(c)) <= 1
                    /\ \A t \in InFlight(c) : conns[c].lock = t

\* one caller executes on a connection while another waits for its lock
C1_Witness ==
    \E c \in Inst, t, u \in Threads :
        /\ t # u
        /\ pc[t] = "ex_run" /\ tConn[t] = c
        /\ pc[u] = "ex_wait" /\ tConn[u] = c

(***************************************************************************)
(* C2: while the pooled connection of a key stays alive and no connect     *)
(* fails, every get_connection for the key returns the same instance,      *)
(* exactly one connect is performed for it, and the pool never holds more  *)
(* than one entry for the key.                                             *)
(***************************************************************************)
\* the SSHConnection objects constructed for key k: a connect is started for each
InstOf(k) == {c \in Inst : conns[c].key = k}

\* a connect for k failed, or a connection of k lost its transport or was closed
Disturbed(k) ==
    \E c \in InstOf(k) : \/ conns[c].outcome = "failed"
                         \/ conns[c].outcome = "ok" /\ ~is_alive(c)

\* the objects callers got from get_connection for k and still hold
Held(k) == {tConn[t] : t \in {u \in Threads : pc[u] \in {"have", "ex_wait", "ex_run"}}} \cap InstOf(k)

C2_AcquireIdempotent ==
    \A k \in Keys :
        ~Disturbed(k) =>
            /\ Cardinality(InstOf(k)) <= 1
            /\ Held(k) \subseteq {connections[k]}
            /\ \A c \in InstOf(k) : conns[c].outcome = "ok" => connections[k] = c

\* two callers hold the same, only, instance of an undisturbed key
C2_Witness ==
    \E k \in Keys, t, u \in Threads :
        /\ t # u
        /\ ~Disturbed(k)
        /\ pc[t] = "have" /\ pc[u] = "have"
        /\ tConn[t] = connections[k] /\ tConn[u] = connections[k]
        /\ InstOf(k) = {connections[k]}

(***************************************************************************)
(* C3: for every multi-host search the hosts sequence handed to the result *)
(* is in ascending ssh_index order, whatever the order in which the host   *)
(* tasks completed and whichever hosts succeeded or failed.                *)
(***************************************************************************)
Ascending(seq) == \A a, b \in 1..Len(seq) : a < b => seq[a].ssh_index < seq[b].ssh_index

C3_HostsAscending ==
    (sPc \in {"aggregated", "done"} /\ sN >= 2 /\ ValidationErrors(sParams) = {})
        => /\ Ascending(sHosts)
           /\ Len(sHosts) = Len(sResults)
           /\ \A a \in 1..Len(sResults) : \E b \in 1..Len(sHosts) : sHosts[b] = sResults[a]

\* three hosts were collected out of index order, one failed and one succeeded
C3_Witness ==
    /\ sPc = "aggregated"
    /\ sN >= 3
    /\ ~Ascending(sResults)
    /\ \E a, b \in 1..Len(sHosts) : sHosts[a].success /\ ~sHosts[b].success

(***************************************************************************)
(* C4: for every search over n >= 1 hosts the result contains exactly n    *)
(* per-host entries, one for each index 0..n-1; a failed host appears with *)
(* success = FALSE, no matches and an error; the search does not raise.    *)
(***************************************************************************)
C4_EveryHostPresent ==
    (sPc = "done" /\ sN >= 1 /\ ValidationErrors(sParams) = {})
        => /\ sOutcome = "returned"
           /\ Len(sHosts) = sN
           /\ \A i \in 0..(sN - 1) : \E a \in 1..Len(sHosts) : sHosts[a].ssh_index = i
           /\ \A a \in 1..Len(sHosts) :
                ~sHosts[a].success =>
                    /\ sHosts[a].results = <<>>
                    /\ sHosts[a].total_results = 0
                    /\ sHosts[a].error # "None"

\* what does hold of the list handed over as hosts=: one entry per host index, a failed
\* host present as a failed entry
C4_EntriesCollected ==
    (sPc \in {"aggregated", "done"} /\ sN >= 1 /\ ValidationErrors(sParams) = {})
        => /\ Len(sHosts) = sN
           /\ \A i \in 0..(sN - 1) : \E a \in 1..Len(sHosts) : sHosts[a].ssh_index = i
           /\ \A a \in 1..Len(sHosts) :
                ~sHosts[a].success =>
                    /\ sHosts[a].results = <<>>
                    /\ sHosts[a].total_results = 0
                    /\ sHosts[a].error # "None"

(***************************************************************************)
(* C5: the close listener is invoked exactly once for a session, whatever  *)
(* the interleaving of the API close, the idle reaper's close and the      *)
(* disconnect cleanup's close; a close that loses reports not-found and    *)
(* fires nothing.                                                          *)
(***************************************************************************)
Winners == {c \in Closers : clPc[c] \in {"won", "fire", "done"}}

C5_ListenerOnce ==
    /\ fired <= 1
    /\ Cardinality(Winners) <= 1
    /\ fired = Cardinality({c \in Closers : clPc[c] = "done"})
    /\ \A c \in Closers :
         clPc[c] = "notfound" => /\ ~sessions
                                 /\ \E d \in Closers : d # c /\ d \in Winners

\* the reaper and the disconnect cleanup had both chosen the session, an API close won
C5_Witness ==
    /\ fired = 1
    /\ \E c, d, e \in Closers :
         /\ CloserKind(c) = "api" /\ clPc[c] = "done"
         /\ CloserKind(d) = "reaper" /\ clPc[d] = "notfound"
         /\ CloserKind(e) = "disconnect" /\ clPc[e] = "notfound"

(***************************************************************************)
(* C6: the status of a session only moves along connecting -> connected -> *)
(* {disconnected, error}; once it is disconnected or error no operation    *)
(* changes it.                                                             *)
(***************************************************************************)
StatusMoves ==
    {<<"none", "connecting">>, <<"none", "connected">>, <<"connecting", "connected">>,
     <<"connected", "disconnected">>, <<"connected", "error">>}

C6_StatusTerminal == [][status' # status => <<status, status'>> \in StatusMoves]_vars

(***************************************************************************)
(* C7: every chunk the reader appends is returned by exactly one           *)
(* get_output, in receipt order, and after a drain the buffer holds only   *)
(* what was appended after it: the text returned so far followed by the    *)
(* text still buffered is the text appended so far.                        *)
(***************************************************************************)
C7_DrainExact == delivered \o Join(buffer) = appended

\* on a registered session a drain has returned text and newer text is buffered
C7_Witness ==
    /\ sessions
    /\ delivered # <<>>
    /\ Join(buffer) # <<>>
    /\ Len(appended) = Len(delivered) + Len(Join(buffer))

(***************************************************************************)
(* C8: with context_span outside [0, 50] or a search_mode outside          *)
(* {keyword, context, tail} the search fails with the validation error     *)
(* before any pool acquisition, reverse probe, command build or remote     *)
(* execution; the reverse-command cache is unchanged and no host task is   *)
(* ever started.                                                           *)
(***************************************************************************)
InvalidParams(p) ==
    \/ p.context_span < 0
    \/ p.context_span > 50
    \/ p.search_mode \notin {"keyword", "context", "tail"}

C8_ValidationFirst ==
    InvalidParams(sParams)
        => /\ sNet = [acquire |-> 0, probe |-> 0, build |-> 0, exec |-> 0]
           /\ sCache = {}
           /\ \A i \in HostIdx : sTask[i] = "none"
           /\ sResults = <<>>
           /\ sPc \in {"called", "done"}
           /\ sPc = "done" => sOutcome = "ValueError: validation"

\* a search over several hosts with context_span = 51 has ended
C8_Witness ==
    /\ sPc = "done"
    /\ sN >= 2
    /\ sParams.context_span > 50
    /\ sParams.search_mode = "keyword"
    /\ sOutcome = "ValueError: validation"

(***************************************************************************)
(* C9 (as stated): when max_lines is set and the parsed result has more    *)
(* than max_lines lines, the retained lines are the max_lines most recent  *)
(* ones in unchanged order: the last max_lines of the parsed sequence, the *)
(* first max_lines when reverse_order is set.                              *)
(***************************************************************************)
MostRecent(kept, parsed, n, reverse) ==
    /\ Len(kept) = n
    /\ \A j \in 1..n : kept[j] = IF reverse THEN parsed[j] ELSE parsed[Len(parsed) - n + j]

HostSucceeded == hPc = "returned" /\ hOut.success

Min(a, b) == IF a <= b THEN a ELSE b

RECURSIVE MatchesUpTo(_, _)
MatchesUpTo(hosts, n) ==
    IF n = 0 THEN 0
    ELSE MatchesUpTo(hosts, n - 1) + (IF hosts[n].success THEN Len(hosts[n].results) ELSE 0)

C11_TotalIsSuccessfulSum ==
    (sPc \in {"aggregated", "done"} /\ sN >= 1 /\ ValidationErrors(sParams) = {})
        => /\ sTotal = MatchesUpTo(sHosts, Len(sHosts))
           /\ \A a \in 1..Len(sHosts) :
                ~sHosts[a].success => sHosts[a].total_results = 0 /\ sHosts[a].results = <<>>

\* a host with matches and a host whose connection failed: the total is the first one's count
C11_Witness ==
    /\ sPc = "aggregated"
    /\ Len(sHosts) >= 2
    /\ sTotal >= 1
    /\ \E a, b \in 1..Len(sHosts) :
         /\ sHosts[a].success /\ sHosts[a].total_results = sTotal
         /\ ~sHosts[b].success /\ sHosts[b].error = "SSH connect failed"

(***************************************************************************)
(* C12: when get_connection finds a pooled connection of the key that is   *)
(* not alive, that connection is closed and its entry removed before the   *)
(* replacement's connect is attempted, and a connection that is not alive  *)
(* is never what get_connection returns.                                   *)
(***************************************************************************)
C12_DeadReplaced ==
    [][\A t \in Threads :
         /\ pc'[t] = "gc_connect"
              => LET k == conns'[tConn'[t]].key
                 IN /\ connections'[k] = NoConn
                    /\ \A c \in Inst :
                         (c # tConn'[t] /\ conns'[c].key = k)
                             => conns'[c].client = "none" /\ ~conns'[c].connected
         /\ (pc[t] # "have" /\ pc'[t] = "have")
              => /\ conns'[tConn'[t]].connected
                 /\ conns'[tConn'[t]].client = "active"]_vars

\* before any sweep could run, a connect is under way for a key whose earlier
\* connection had been connected and is now closed and out of the pool
C12_Witness ==
    /\ now = 0
    /\ \E t \in Threads, c \in Inst :
         /\ pc[t] = "gc_connect"
         /\ c # tConn[t]
         /\ conns[c].key = conns[tConn[t]].key
         /\ conns[c].outcome = "ok"
         /\ conns[c].client = "none"
         /\ connections[conns[c].key] = NoConn

(***************************************************************************)
(* C13: when connect fails during get_connection the caller gets the       *)
(* failure (None) and the pool holds no entry for the key afterwards, also *)
(* when a dead entry of the key was removed just before the connect.       *)
(***************************************************************************)
C13_FailedConnectLeavesNothing ==
    [][\A t \in Threads :
         /\ (pc[t] = "gc_connect" /\ pc'[t] = "idle")
              => /\ tConn'[t] = NoConn
                 /\ connections'[conns[tConn[t]].key] = NoConn
                 /\ conns'[tConn[t]].client = "none"
                 /\ ~conns'[tConn[t]].connected
         /\ \A c \in Inst :
              conns'[c].outcome = "failed"
                  => /\ \A k \in Keys : connections'[k] # c
                     /\ \A u \in Threads : tConn'[u] # c]_vars

\* before any sweep could run: the key's first connection died and was removed, the
\* replacement's connect failed, and the key has no entry
C13_Witness ==
    /\ now = 0
    /\ poolLock = NoThread
    /\ \E c, d \in Inst :
         /\ conns[c].key = conns[d].key
         /\ conns[c].outcome = "ok" /\ conns[c].client = "none"
         /\ conns[d].outcome = "failed"
         /\ connections[conns[d].key] = NoConn

(***************************************************************************)
(* C14: a command that times out on a pooled, live connection raises to    *)
(* the caller (the caller is back at idle without a result), releases the  *)
(* connection's execution lock, and leaves the connection in the pool,     *)
(* still marked connected, with last_used untouched; the caller's next     *)
(* acquire for that key, the transport still being alive, returns the      *)
(* same instance.                                                          *)
(***************************************************************************)
C14_TimeoutKeepsConnection ==
    [][\A t \in Threads :
        /\ (pc[t] = "ex_run" /\ pc'[t] = "idle" /\ tRaisedOn'[t] # NoConn) =>
              LET c == tConn[t]
              IN /\ tRaisedOn'[t] = c
                 /\ conns'[c].lock = NoThread
                 /\ conns'[c].connected /\ conns'[c].client = "active"
                 /\ conns'[c].last_used = conns[c].last_used
                 /\ connections' = connections
        /\ (pc[t] = "idle" /\ pc'[t] = "have" /\ tRaisedOn[t] # NoConn) =>
              LET c == tRaisedOn[t]
              IN (connections[conns[c].key] = c /\ is_alive(c)
                    /\ conns[tConn'[t]].key = conns[c].key) => tConn'[t] = c]_vars

\* a caller whose command just timed out on pooled connection c, with c still pooled,
\* alive and unlocked and the pool lock free: the next acquire for c's key returns c
C14_Witness ==
    \E t \in Threads, c \in Inst :
        /\ pc[t] = "idle" /\ tRaisedOn[t] = c
        /\ connections[conns[c].key] = c /\ is_alive(c)
        /\ conns[c].lock = NoThread /\ poolLock = NoThread
        /\ \E u \in Threads : u # t /\ pc[u] = "have" /\ tConn[u] = c

(***************************************************************************)
(* C15: an acquire that has to create a connection while the pool (the     *)
(* key's own dead entry aside) already holds max_connections entries runs  *)
(* the eviction sweep first: every other entry idle for more than          *)
(* StaleWindow seconds is removed and closed, every other entry stays as   *)
(* it is, and the new entry is not in the pool before its connect          *)
(* succeeded.  A step of the periodic sweep evicts in the same way.        *)
(***************************************************************************)
IdleTooLong(c) == now - conns[c].last_used > StaleWindow

EvictedExactly(others) ==
    \A j \in others :
        connections[j] # NoConn =>
            LET c == connections[j]
            IN IF IdleTooLong(c)
               THEN /\ connections'[j] = NoConn
                    /\ conns'[c].client = "none" /\ ~conns'[c].connected
               ELSE /\ connections'[j] = c
                    /\ conns'[c] = conns[c]

C15_SweepEvictsExactlyStale ==
    [][/\ \A t \in Threads :
            (pc[t] = "idle" /\ pc'[t] = "gc_connect") =>
                LET k == conns'[tConn'[t]].key
                    held == {j \in Keys \ {k} : connections[j] # NoConn}
                IN /\ connections'[k] = NoConn
                   /\ IF Cardinality(held) >= max_connections
                      THEN EvictedExactly(Keys \ {k})
                      ELSE \A j \in held : /\ connections'[j] = connections[j]
                                           /\ conns'[connections[j]] = conns[connections[j]]
       /\ (pc' = pc /\ connections' # connections) => EvictedExactly(Keys)]_vars

\* a create at capacity has evicted the stale entry of another key and is connecting,
\* its own entry not yet admitted
C15_Witness ==
    \E t \in Threads, c \in Inst :
        /\ pc[t] = "gc_connect" /\ poolLock = t
        /\ conns[c].key # conns[tConn[t]].key
        /\ conns[c].outcome = "ok" /\ conns[c].client = "none"
        /\ IdleTooLong(c)
        /\ connections[conns[c].key] = NoConn
        /\ connections[conns[tConn[t]].key] = NoConn

(***************************************************************************)
(* C16: the reverse-tool probe (`which tac`) is run at most once per       *)
(* endpoint, whatever the interleaving of the callers, concurrent first    *)
(* callers and failed probes included.                                     *)
(***************************************************************************)
C16_ProbeAtMostOnce == \A e \in Endpoints : rcProbes[e] <= 1

\* the cached choice of an endpoint never changes once it is there
C16_CachedChoiceStable ==
    [][\A e \in Endpoints : rcCache[e] # NotCached => rcCache'[e] = rcCache[e]]_vars

\* a caller that finds the endpoint cached returns the cached choice and probes nothing
C16_HitUsesCache ==
    [][\A w \in Callers :
        (rcPc[w] = "idle" /\ rcPc'[w] = "idle" /\ rcRet'[w] # rcRet[w]) =>
            /\ rcProbes' = rcProbes
            /\ \E e \in Endpoints : rcRet'[w] = rcCache[e]]_vars

(***************************************************************************)
(* C17: with idle_timeout > 0 and the reaper scheduled fairly, a           *)
(* registered session whose last_activity is older than the threshold is   *)
(* eventually out of the registry with its channel closed, unless new      *)
(* activity makes it no longer idle.                                       *)
(***************************************************************************)
IdlePastThreshold == sessions /\ last_activity < tnow - idle_timeout

C17_IdleEventuallyClosed ==
    IdlePastThreshold ~> ((~sessions /\ chanClosed) \/ (sessions /\ ~IdlePastThreshold))

\* the reaper found the session idle past the threshold, won the close and finished it
C17_Witness ==
    \E c \in Closers :
        /\ CloserKind(c) = "reaper" /\ clPc[c] = "done"
        /\ last_activity < tnow - idle_timeout
        /\ ~sessions /\ chanClosed /\ fired = 1

(***************************************************************************)
(* C18: command_count equals the number of send_command calls that went    *)
(* through, at every moment of the session's life, concurrent calls        *)
(* included.                                                               *)
(***************************************************************************)
C18_CountEqualsCompleted == command_count = cmdDone

\* send_raw and resize_terminal never change command_count or the history
C18_RawInputNotCounted ==
    [][\A s \in Senders :
        (sdKind[s] \in {"send_raw", "resize_terminal"} /\ sdPc'[s] # sdPc[s]) =>
            /\ command_count' = command_count
            /\ session_history' = session_history]_vars

(***************************************************************************)
(* C19: when the write or the resize of a send_command, send_raw or        *)
(* resize_terminal call fails at the transport, the session's status       *)
(* becomes error, the caller gets the failure, the channel is not closed   *)
(* and the session stays registered.                                       *)
(***************************************************************************)
C19_FailureMarksErrorAndSurfaces ==
    [][\A s \in Senders :
        (sdPc[s] = "sending" /\ sdPc'[s] = "idle" /\ sdResult'[s] # "ok") =>
            /\ status' = "error"
            /\ sdResult'[s] = "raised"
            /\ chanClosed' = chanClosed
            /\ sessions' = sessions]_vars

\* a failed send_command does all of it
C19_SendCommandFailure ==
    [][\A s \in Senders :
        (sdPc[s] = "sending" /\ sdKind[s] = "send_command" /\ sdPc'[s] = "idle") =>
            /\ status' = "error"
            /\ sdResult'[s] = "raised"
            /\ chanClosed' = chanClosed
            /\ sessions' = sessions]_vars

(***************************************************************************)
(* C20: the status becomes disconnected only in a step of the session's    *)
(* reader, after the reader saw the channel closed and left its loop; at   *)
(* that step the end marker is already in the session's output, exactly    *)
(* once, and the reader never appends it a second time.                    *)
(***************************************************************************)
MarkerCount(text) == Len(SelectSeq(text, LAMBDA x : x = EndMarker[1]))

C20_DisconnectedOnlyByReader ==
    [][/\ (status' = "disconnected" /\ status # "disconnected") =>
            /\ rdPc = "status" /\ rdPc' = "done"
            /\ chanClosed
            /\ MarkerCount(appended) = 1
            /\ appended' = appended
       /\ MarkerCount(appended') <= 1
       /\ MarkerCount(appended') >= MarkerCount(appended)]_vars

\* the reader has marked the still registered session disconnected, the marker is there
C20_Witness ==
    /\ status = "disconnected" /\ rdPc = "done" /\ sessions
    /\ MarkerCount(appended) = 1
    /\ appended[Len(appended)] = EndMarker[1]

(***************************************************************************)
(* C28: while a caller is inside connect() for one endpoint, an acquire    *)
(* for another endpoint whose connection is pooled and alive can complete  *)
(* at once: it does not wait for that connect.                             *)
(***************************************************************************)
C28_NoHeadOfLineBlocking ==
    \A t \in Threads, u \in Threads, k \in Keys :
        (/\ pc[t] = "gc_connect" /\ conns[tConn[t]].key # k
         /\ pc[u] = "idle"
         /\ connections[k] # NoConn /\ is_alive(connections[k]))
            => ENABLED GcReuse(u, k)

(***************************************************************************)
(* C29: the eviction sweep, periodic or at capacity, never closes a        *)
(* connection that a caller has acquired and not finished its command on   *)
(* (acquired, waiting for the lock, or executing).                         *)
(***************************************************************************)
InUse(c) == \E t \in Threads : tConn[t] = c /\ pc[t] \in {"have", "ex_wait", "ex_run"}

\* the step runs _cleanup_old_connections and closes c by it
SweptAway(c) ==
    /\ conns[c].key # NoKey
    /\ connections[conns[c].key] = c
    /\ conns[c].connected /\ ~conns'[c].connected
    /\ \/ pc' = pc
       \/ \E t \in Threads : /\ pc[t] = "idle" /\ pc'[t] = "gc_connect"
                             /\ conns'[tConn'[t]].key # conns[c].key

C29_SweepSparesConnectionsInUse ==
    [][\A c \in Inst : SweptAway(c) => ~InUse(c)]_vars

(***************************************************************************)
(* C30: the pool never holds more than max_connections connections.        *)
(***************************************************************************)
C30_PoolWithinCapacity == PoolSize(connections) <= max_connections

(***************************************************************************)
(* Claims about FilenameResolver                                           *)
(***************************************************************************)
\* the regular expression resolve derives from the resolved pattern
DerivedRegex == CreateRegexFromPattern(Basename(rResolved))

\* the listed files whose name matches the derived regex
MatchingIdx == {i \in 1..Len(rFiles) : ReMatch(DerivedRegex, Basename(rFiles[i]))}

\* the N captured from listed file i
CapturedN(i) == IntOf(ReGroup1(DerivedRegex, Basename(rFiles[i])))

C22_DuplicateNRejected ==
    (rPc = "done" /\ Count(rPattern, PhN) > 1)
        => (rOut.kind = "ValidationError" /\ rCmds = 0)

\* the pattern with every {N} replaced by 0
DefaultFilename == Replace(rResolved, PhN, <<"0">>)

\* a resolution of a pattern with {N} on a connection, in which no listed name
\* matches the derived regex
NoRemoteMatch ==
    /\ rPc = "done"
    /\ Contains(rPattern, PhN)
    /\ rConn # "none"
    /\ MatchingIdx = {}

\* C23 as stated: when no remote file matches the derived regex, be the listing
\* empty or not, resolve returns the pattern with {N} replaced by 0 and does
\* not raise.
C23_NoMatchGivesZero ==
    NoRemoteMatch => rOut = [kind |-> "ok", path |-> DefaultFilename]

\* C23 amended: when the listing is empty (no such directory, no file, or a
\* failed command) resolve returns the pattern with {N} replaced by 0; when
\* the listing only has names that do not match, it returns the first listed
\* file; in neither case does it raise.
C23_NoMatchZeroOrFirstListed ==
    NoRemoteMatch =>
        /\ rOut.kind = "ok"
        /\ rFiles = <<>> => rOut.path = DefaultFilename
        /\ rFiles # <<>> => rOut.path = rFiles[1]

\* both cases: a{N}b with nothing listed gives a0b, a{N}b with only axb listed
\* gives ./axb
C23_Witness ==
    /\ NoRemoteMatch
    /\ rPattern = <<"a", "{", "N", "}", "b">>
    /\ \/ rFiles = <<>> /\ rCmds = 2 /\ rOut.path = <<"a", "0", "b">>
       \/ rFiles = <<<<".", "/", "a", "x", "b">>>> /\ rOut.path = <<".", "/", "a", "x", "b">>

C23_WitnessEmpty == C23_Witness /\ rFiles = <<>>

C23_WitnessNonMatching == C23_Witness /\ rFiles # <<>>

\* the date fields substituted in one pass from left to right, every other
\* symbol kept
RECURSIVE DateSubstituted(_, _)
DateSubstituted(p, d) ==
    IF p = <<>> THEN <<>>
    ELSE IF Len(p) >= 3 /\ p[1] = "{" /\ p[3] = "}" /\ p[2] \in {"YYYY", "MM", "DD"}
         THEN <<CASE p[2] = "YYYY" -> d.Y [] p[2] = "MM" -> d.M [] p[2] = "DD" -> d.D>>
              \o DateSubstituted(SubSeq(p, 4, Len(p)), d)
         ELSE <<Head(p)>> \o DateSubstituted(Tail(p), d)

\* C25: resolving a pattern without {N} executes no remote command and needs
\* no connection: it returns the pattern with exactly the date fields
\* substituted, whatever connection was or was not supplied.
C25_DateOnlyIsLocal ==
    /\ ~Contains(rPattern, PhN) => rCmds = 0
    /\ (rPc = "done" /\ ~Contains(rPattern, PhN))
           => rOut = [kind |-> "ok", path |-> DateSubstituted(rPattern, rDate)]

\* a{YYYY}{MM}{DD}b resolved with no connection
C25_Witness ==
    /\ rPc = "done"
    /\ rConn = "none"
    /\ rPattern = <<"a", "{", "YYYY", "}", "{", "MM", "}", "{", "DD", "}", "b">>
    /\ rDate.Y = "2024"
    /\ rOut = [kind |-> "ok", path |-> <<"a", "2024", "05", "17", "b">>]
    /\ rCmds = 0

(***************************************************************************)
(* Claims about validate_log_filename_pattern                              *)
(***************************************************************************)
\* the position of the last closing brace before j, 0 when there is none
PrevClose(s, j) ==
    IF \E p \in 1..(j - 1) : s[p] = "}"
    THEN CHOOSE p \in 1..(j - 1) : s[p] = "}" /\ \A q \in (p + 1)..(j - 1) : s[q] # "}"
    ELSE 0

\* the {...} placeholders of a pattern: for a closing brace at j, the text from
\* the leftmost opening brace that lies after the previous closing brace and
\* has at least one symbol between itself and j
PlaceholdersOf(s) ==
    {SubSeq(s, ij[1], ij[2]) : ij \in
        {ij \in (1..Len(s)) \X (1..Len(s)) :
            /\ s[ij[2]] = "}"
            /\ s[ij[1]] = "{"
            /\ PrevClose(s, ij[2]) < ij[1] /\ ij[1] <= ij[2] - 2
            /\ \A k \in (PrevClose(s, ij[2]) + 1)..(ij[1] - 1) : s[k] # "{"}}

\* the positions at which {N} starts
StartsOfN(s) == {i \in 1..(Len(s) - 2) : SubSeq(s, i, i + 2) = PhN}

\* C27: validate_log_filename_pattern answers (True, []) exactly when every
\* {...} placeholder of the pattern is one of {YYYY}, {MM}, {DD}, {N}, {N}
\* occurs at most once and the pattern is not blank; otherwise it answers
\* False with a non-empty error list.
C27_ValidExactlyWhen ==
    vPc = "done" =>
        /\ vValid <=> (/\ PlaceholdersOf(vPattern) \subseteq {PhYYYY, PhMM, PhDD, PhN}
                       /\ Cardinality(StartsOfN(vPattern)) <= 1
                       /\ \E i \in 1..Len(vPattern) : vPattern[i] # " ")
        /\ vValid <=> vErrors = <<>>

\* 'app-{YYYY}-{MM}-{DD}-{N}.log' is found valid
C27_Witness ==
    /\ vPc = "done"
    /\ vPattern = TestPattern
    /\ vValid
    /\ vErrors = <<>>

\* a pattern with {N} twice, one with an unknown placeholder and a blank one
\* are each rejected
C27_WitnessRejected ==
    /\ vPc = "done"
    /\ ~vValid
    /\ vPattern \in {<<"{", "N", "}", "{", "N", "}">>, <<"{", "a", "}">>, <<" ">>}

(***************************************************************************)
(* Claims about smart_decode                                               *)
(***************************************************************************)
\* the candidates in their fixed priority, or the caller's list
Candidates ==
    IF dFallbacks.given THEN dFallbacks.list
    ELSE <<"utf-8", "gb18030", "gbk", "gb2312", "big5", "shift_jis", "latin-1">>

RECURSIVE Without(_, _)
Without(seq, e) ==
    IF seq = <<>> THEN <<>>
    ELSE IF Head(seq) = e THEN Without(Tail(seq), e)
    ELSE <<Head(seq)>> \o Without(Tail(seq), e)

\* the preferred encoding first, then the candidates
TrialOrder ==
    IF dPreferred = "None" THEN Candidates ELSE <<dPreferred>> \o Without(Candidates, dPreferred)

\* candidate i decodes the data with a confidence above the given thousandths
Above(i, thousandths) ==
    /\ dTab[TrialOrder[i]].decoded
    /\ Confidence(dTab[TrialOrder[i]], TrialOrder[i]) > thousandths * dTab[TrialOrder[i]].len

ConfidenceOf(i) == Confidence(dTab[TrialOrder[i]], TrialOrder[i])

Returned(i) == dOut.text = dTab[TrialOrder[i]] /\ dOut.encoding = TrialOrder[i]

C26_WitnessShortCircuit ==
    /\ dKind = "plain" /\ dPc = "done"
    /\ dPreferred = "bogus" /\ ~dFallbacks.given
    /\ ~dTab["utf-8"].decoded
    /\ dTried = <<"bogus", "utf-8", "gb18030">>
    /\ dOut.encoding = "gb18030" /\ dOut.at = "high"

\* nothing reaches the floor and the result is UTF-8 with replacement
C26_WitnessLossy ==
    /\ dKind = "plain" /\ dPc = "done"
    /\ dFallbacks = [given |-> TRUE, list |-> <<"utf-8", "gb18030">>]
    /\ dPreferred = "bogus"
    /\ dTried = <<"bogus", "utf-8", "gb18030", "bogus", "utf-8", "gb18030">>
    /\ dOut.encoding = "utf-8" /\ dOut.at = "lossy" /\ dOut.text.bad > 0

(***************************************************************************)
(* Claims about the command built and the parsing of its output            *)
(***************************************************************************)
\* the stage names of the command built
StageNames == [j \in 1..Len(hCmd) |-> hCmd[j].stage]

IsMatchStage(st) == st.stage \in {"grep -nE", "grep -nF"}

\* the bounded tail with its optional reverse filter, written out
RecentLines(path, reverse, rev) ==
    (IF path = "/var/log/app.log.gz"
     THEN <<[stage |-> "gzip -dc", arg |-> 0, file |-> path],
            [stage |-> "tail -n", arg |-> 100, file |-> ""]>>
     ELSE <<[stage |-> "tail -n", arg |-> 100, file |-> path]>>)
    \o (IF reverse THEN <<[stage |-> rev, arg |-> 0, file |-> ""]>> ELSE <<>>)

\* C36: for valid parameters with an empty keyword, the command of keyword or
\* context mode is the command tail mode builds for the same file, order and
\* endpoint: the bounded tail and the optional reverse filter, with no match
\* stage and no limit stage.
C36_EmptyKeywordIsTail ==
    (/\ hPc = "built"
     /\ ValidationErrors(sParams) = {}
     /\ sParams.keyword = ""
     /\ sParams.search_mode \in {"keyword", "context"})
        => /\ hCmd = ComposeCommand([sParams EXCEPT !.search_mode = "tail"], hPath,
                                    ProbeReverse(hEnv))
           /\ hCmd = RecentLines(hPath, sParams.reverse_order, ProbeReverse(hEnv))
           /\ \A j \in 1..Len(hCmd) : ~IsMatchStage(hCmd[j]) /\ hCmd[j].stage # "head -n"

\* context mode, empty keyword, reversed, compressed file, a span of 50
C36_Witness ==
    /\ hPc = "built"
    /\ sParams.keyword = "" /\ sParams.search_mode = "context" /\ sParams.context_span = 50
    /\ sParams.reverse_order
    /\ hPath = "/var/log/app.log.gz"
    /\ StageNames = <<"gzip -dc", "tail -n", ProbeReverse(hEnv)>>
    /\ hCmd[2].arg = 100

\* C37: every pipeline built is [decompress], match or tail, [limit],
\* [reverse], in this order; decompress is there exactly for a .gz path, and
\* then the next stage reads the pipe; the match stage has a context window
\* exactly in context mode with a positive span; a pipeline with a match stage
\* (non-empty keyword, keyword or context mode) ends in head -n 10000 when not
\* reversed and in tail -n 10000 and the reverse filter when reversed.
C37_PipelineShape ==
    hPc = "built" =>
        LET gz == hPath = "/var/log/app.log.gz"
            k == IF gz THEN 2 ELSE 1
            rest == SubSeq(hCmd, k + 1, Len(hCmd))
            matching == sParams.keyword # "" /\ sParams.search_mode # "tail"
            rev == <<[stage |-> ProbeReverse(hEnv), arg |-> 0, file |-> ""]>>
        IN /\ Len(hCmd) >= k
           /\ (hCmd[1].stage = "gzip -dc") <=> gz
           /\ \A j \in 2..Len(hCmd) : hCmd[j].stage # "gzip -dc"
           /\ hCmd[1].file = hPath
           /\ \A j \in 2..Len(hCmd) : hCmd[j].file = ""
           /\ IsMatchStage(hCmd[k]) <=> matching
           /\ ~matching => hCmd[k].stage = "tail -n" /\ rest = (IF sParams.reverse_order THEN rev ELSE <<>>)
           /\ matching =>
                 /\ hCmd[k].stage = (IF sParams.use_regex THEN "grep -nE" ELSE "grep -nF")
                 /\ (hCmd[k].arg > 0) <=> (sParams.search_mode = "context" /\ sParams.context_span > 0)
                 /\ hCmd[k].arg > 0 => hCmd[k].arg = sParams.context_span
                 /\ rest = IF sParams.reverse_order
                           THEN <<[stage |-> "tail -n", arg |-> 10000, file |-> ""]>> \o rev
                           ELSE <<[stage |-> "head -n", arg |-> 10000, file |-> ""]>>

\* a reversed context search with a regex in a compressed file
C37_Witness ==
    /\ hPc = "built"
    /\ sParams.keyword = "error" /\ sParams.search_mode = "context" /\ sParams.context_span = 5
    /\ sParams.use_regex /\ sParams.reverse_order
    /\ hPath = "/var/log/app.log.gz"
    /\ StageNames = <<"gzip -dc", "grep -nE", "tail -n", ProbeReverse(hEnv)>>
    /\ hCmd[2].arg = 5 /\ hCmd[2].file = "" /\ hCmd[3].arg = 10000

\* the non-blank lines, as they are, without a line number
Unchanged(lines) ==
    LET kept == SelectSeq(lines, LAMBDA l : l # "")
    IN [j \in 1..Len(kept) |-> [content |-> kept[j], line_number |-> 0]]

\* C38: a line-number prefix or a "--" line is removed only when the command
\* executed has a line-numbered match stage; for a tail-mode or empty-keyword
\* command, whatever the path and the content, every non-blank line of the
\* output is returned as it is, with no line number.
C38_StripOnlyAfterMatchStage ==
    (hPc = "parsed" /\ \A j \in 1..Len(hCmd) : ~IsMatchStage(hCmd[j]))
        => hParsed = Unchanged(hEnv.stdout)

(***************************************************************************)
(* Claims about the life of a terminal session                             *)
(***************************************************************************)
\* C31: the idle reaper never closes a session that has had activity within
\* the idle threshold at the moment it is closed, activity between the
\* selection of the victims and the close call included.
C31_ReaperSparesActiveSession ==
    [][\A c \in Closers :
          (CloserKind(c) = "reaper" /\ clPc[c] = "selected" /\ clPc'[c] = "won")
              => last_activity < tnow - idle_timeout]_vars

\* C35: the command history of a session is bounded, its length never exceeds
\* a fixed maximum (10, the number of entries the session view returns).
C35_HistoryBounded == session_history <= HISTORY_SHOWN

\* C34 as stated: once the reader has detected the end of the channel and
\* finished, the session is no longer in the registry, with no explicit close
\* and no reaper needed.
C34_ReaderEndDestroysSession == rdPc = "done" => ~sessions

\* C34, amended: the end of the channel detected by the reader leaves the
\* session in the registry, marked disconnected: no step of the reader removes
\* it, and it is removed only by a close (explicit, disconnect cleanup or idle
\* reaper).
C34_ReaderEndKeepsSession ==
    [][/\ (rdPc # "off" /\ rdPc' # rdPc) => sessions' = sessions
       /\ (rdPc = "status" /\ rdPc' = "done" /\ sessions) => (sessions' /\ status' = "disconnected")
       /\ (sessions /\ ~sessions') =>
             \E c \in Closers : clPc[c] \in {"idle", "selected"} /\ clPc'[c] = "won"]_vars

\* the reader has finished, nobody closed, the session is still registered and
\* getOutput has handed out the end marker
C34_Witness ==
    /\ rdPc = "done" /\ chanClosed
    /\ \A c \in Closers : clPc[c] \in {"idle", "skipped"}
    /\ sessions /\ status = "disconnected"
    /\ delivered # <<>> /\ delivered[Len(delivered)] = EndMarker[1]

\* C39: the reader decodes every chunk it receives, with the forced encoding
\* when one is set and with the last-successful encoding otherwise; while a
\* forced encoding is set the stored last-successful encoding is not modified;
\* send and sendCommand encode with the forced encoding, else the
\* last-successful one, else UTF-8.
C39_EncodingPrecedence ==
    [][/\ Len(chunkLog') > Len(chunkLog) =>
             LET c == chunkLog'[Len(chunkLog')]
             IN /\ c.decoded
                /\ c.forced = "None" => c.last_good = last_good
       /\ (forced_encoding # "None" /\ forced_encoding' # "None") => sdEncoding' = sdEncoding
       /\ Len(sentWith') > Len(sentWith) =>
             sentWith'[Len(sentWith')] =
                 IF forced_encoding # "None" THEN forced_encoding
                 ELSE IF sdEncoding # "None" THEN sdEncoding ELSE "utf-8"]_vars

\* C40: an open starts exactly one reader for its session, a session never has
\* two readers, and once the channel of the session is closed (remote end,
\* explicit close, reaper) its reader ends: no reader runs on for a closed
\* channel.
C40_OneReaderThatEnds ==
    /\ [](rdStarted = IF created THEN 1 ELSE 0)
    /\ [](rdPc # "off" <=> created)
    /\ (chanClosed ~> rdPc = "done")

\* the reaper closed the channel and the one reader has ended
C40_Witness ==
    /\ rdStarted = 1 /\ rdPc = "done" /\ chanClosed
    /\ \E c \in Closers : CloserKind(c) = "reaper" /\ clPc[c] \in {"fire", "done"}

(***************************************************************************)
(* Claims about the batch of a multi-host search                           *)
(***************************************************************************)
\* C33: a host task that raises or times out gives a failed entry for its host
\* while the task of every other host runs to its end and contributes its own
\* result; the search goes on once every task has finished or has exceeded its
\* timeout: the collecting loop can take a failed entry for a task that is
\* overdue, so a hanging host does not hold the batch.
C33_HangingHostDoesNotBlock ==
    /\ sPc = "aggregated" =>
          \A i \in HostIdx : i < sN =>
              \E j \in 1..Len(sHosts) :
                  /\ sHosts[j].ssh_index = i
                  /\ sTaskResult[i] # NoResult => sHosts[j] = sTaskResult[i]
    /\ \A i \in HostIdx :
          (sPc = "collecting" /\ sTask[i] = "pending" /\ i \in sOverdue) => ENABLED Collect(i)

(***************************************************************************)
(* Claims about the locks                                                  *)
(***************************************************************************)
LockWaiting(t) ==
    LockBusy(t) /\ LockNext(t).kind = "acquire" /\ lkHeld[LockNext(t).lock] # NoThread

\* C32: no interleaving of the operations of the pool and of the terminal
\* service deadlocks: the holder of a lock another thread waits for is itself
\* never waiting and can step, and every operation entered comes to its end,
\* so no thread waits for ever for the pool lock, a connection's lock, the
\* registry lock or a session's buffer lock.
C32_NoDeadlock ==
    /\ [](\A t \in LockThreads :
             LockWaiting(t) =>
                 LET h == lkHeld[LockNext(t).lock]
                 IN h # t /\ ~LockWaiting(h) /\ ENABLED LockStep(h))
    /\ <>[](\A t \in LockThreads : ~LockBusy(t))

\* get_output waits for the buffer lock the reader holds
C32_Witness ==
    \E t \in LockThreads, u \in LockThreads :
        /\ lkOp[t] = "get_output" /\ lkOp[u] = "_output_reader"
        /\ LockWaiting(t) /\ lkHeld["buffer"] = u
====
